---- MODULE Spec2Model ----
(***************************************************************************)
(* Model of the rocket documentation compiler: the directive handlers of   *)
(* src/src/directives.rs and the two-pass project build of                 *)
(* src/src/main.rs.  Text is a TLA+ string, a Node is a record that is     *)
(* either a leaf (NodeValue::Owned) or a list of children                  *)
(* (NodeValue::Children), and the Evaluator is a record threaded through   *)
(* the recursive evaluation.                                               *)
(***************************************************************************)
EXTENDS Integers, Sequences, FiniteSets, TLC

VARIABLES
    pc,             \* position of build_project: "build", "finish", "link", "done", "panicked"
    files,          \* the source files walkdir has not yet yielded
    nbuilt,         \* number of source files walkdir has yielded so far
    ev,             \* the Evaluator
    pending_pages,  \* build_project's pending_pages (the pages that passed pass 1)
    titles,         \* build_project's titles map, slug -> title
    renderer,       \* the theme::Renderer, holding the finished toctree
    nlinked,        \* number of pending pages link_file has been called for
    written,        \* the output files, slug -> contents
    built,          \* ghost: one record per source file build_file was called for
    link_results,   \* ghost: what link_file returned, per pending page linked so far
    call,           \* the last handler call made on the evaluator
    ncalls          \* number of handler calls made so far

vars == <<pc, files, nbuilt, ev, pending_pages, titles, renderer, nlinked,
          written, built, link_results, call, ncalls>>

-----------------------------------------------------------------------------
(* Bounds *)

MaxPages == 3
MaxCalls == 4
MaxPairs == 2
MaxBody == 2
MaxArgs == 3
MaxCheckers == 2

-----------------------------------------------------------------------------
(* Nodes: parse::Node with NodeValue::Owned(String) or NodeValue::Children *)

Leaf(s) == [s |-> s]
Group(children) == [c |-> children]
IsOwned(node) == "s" \in DOMAIN node

(* A directive call name(arg, ...) as the parser produces it. *)
Call(name, args) == Group(<<Leaf(name)>> \o args)

EmptyMap == [x \in {} |-> ""]
MapInsert(m, k, v) == [x \in DOMAIN m \cup {k} |-> IF x = k THEN v ELSE m[x]]
MapRemove(m, k) == [x \in DOMAIN m \ {k} |-> m[x]]

-----------------------------------------------------------------------------
(* Handlers held by the directive registry *)

Builtin(h) ==
    [h |-> h, level |-> "", template |-> "", checkers |-> <<>>, version |-> <<>>]
HeadingNew(level) == [Builtin("heading") EXCEPT !.level = level]
TemplateNew(template, checkers) ==
    [Builtin("template") EXCEPT !.template = template, !.checkers = checkers]

RefDefNew(title, slug) == [title |-> title, slug |-> slug]

Ok(out, e) == [ok |-> TRUE, out |-> out, e |-> e]
Err(e) == [ok |-> FALSE, out |-> "", e |-> e]

(* A panic inside a handler: the process aborts, no result is returned. *)
Panic(e) == [ok |-> FALSE, out |-> "", e |-> [e EXCEPT !.panicked = TRUE]]

(* str::split('.') and the count of str::matches('.') *)
RECURSIVE Split(_, _, _)
Split(s, i, current) ==
    IF i > Len(s) THEN <<current>>
    ELSE IF SubSeq(s, i, i) = "." THEN <<current>> \o Split(s, i + 1, "")
    ELSE Split(s, i + 1, current \o SubSeq(s, i, i))

CountDots(s) == Cardinality({i \in 1..Len(s) : SubSeq(s, i, i) = "."})

(* [String]::join(".") *)
RECURSIVE JoinDots(_)
JoinDots(components) ==
    IF components = <<>> THEN ""
    ELSE IF Len(components) = 1 THEN Head(components)
    ELSE Head(components) \o "." \o JoinDots(Tail(components))

(* Version::new *)
VersionNew(version) == [Builtin("version") EXCEPT !.version = Split(version, 1, "")]

(* The Markdown renderer, render(text, highlighter) -> (html, title): a     *)
(* text that is a level-one heading is rendered as one and is the title     *)
(* extracted; any other text is a paragraph.                                *)
MarkdownRender(text) ==
    IF text = "" THEN [html |-> "", title |-> ""]
    ELSE IF Len(text) > 2 /\ SubSeq(text, 1, 2) = "# "
         THEN [html |-> "<h1>" \o SubSeq(text, 3, Len(text)) \o "</h1>\n",
               title |-> SubSeq(text, 3, Len(text))]
    ELSE [html |-> "<p>" \o text \o "</p>\n", title |-> ""]

IsSpace(ch) == ch \in {" ", "\n"}

(* str::trim *)
RECURSIVE Trim(_)
Trim(s) ==
    IF s = "" THEN ""
    ELSE IF IsSpace(SubSeq(s, 1, 1)) THEN Trim(SubSeq(s, 2, Len(s)))
    ELSE IF IsSpace(SubSeq(s, Len(s), Len(s))) THEN Trim(SubSeq(s, 1, Len(s) - 1))
    ELSE s

(* The regex crate on the patterns the model uses. *)
RegexValid(pattern) == pattern \in {"^.+$", "^/.*$", ".*"}
IsMatch(pattern, s) ==
    CASE pattern = "^.+$" -> s # ""
      [] pattern = "^/.*$" -> Len(s) >= 1 /\ SubSeq(s, 1, 1) = "/"
      [] OTHER -> TRUE

Digits == "0123456789"
IsDigit(ch) == \E i \in 1..Len(Digits) : SubSeq(Digits, i, i) = ch
DigitValue(ch) == (CHOOSE i \in 1..Len(Digits) : SubSeq(Digits, i, i) = ch) - 1

-----------------------------------------------------------------------------
(* The Evaluator *)

PlaceholderToken(n) == "%" \o ToString(n) \o ";"

(* Bind(x, F) is F(x) with x evaluated once: LET x == ... IN F(x) written  *)
(* so that a result used several times is computed a single time.          *)
Bind(x, F(_)) == CHOOSE y \in {F(v) : v \in {x}} : TRUE

Out(out, e) == [out |-> out, e |-> e]

(* Evaluator::get_placeholder: a fresh token recording id and field. *)
GetPlaceholder(e, refid, action) ==
    Bind(PlaceholderToken(Len(e.placeholders)), LAMBDA token :
        Out(token, [e EXCEPT !.placeholders =
                       Append(@, [token |-> token, refid |-> refid, action |-> action])]))

(* Evaluator::error: an error is logged against a node. *)
LogError(e) == [e EXCEPT !.errors = @ + 1]

(* Evaluator::reset: the per-page state goes, the project-wide state stays. *)
Reset(e) == [e EXCEPT !.ctx = EmptyMap, !.theme_config = EmptyMap]

(* Evaluator::register *)
Register(e, name, handler) ==
    [e EXCEPT !.directives = MapInsert(@, name, handler)]

RECURSIVE Evaluate(_, _)
RECURSIVE Handle(_, _, _)
RECURSIVE EvaluateAll(_, _, _)
RECURSIVE LetInstall(_, _, _, _)
RECURSIVE TemplateArgs(_, _, _, _, _)
RECURSIVE DefineTemplateCheckers(_, _, _, _)
RECURSIVE ThemeConfigPairs(_, _, _)
RECURSIVE DefinitionListSegments(_, _, _, _)
RECURSIVE StepsFrom(_, _, _, _)
RECURSIVE TocTreeFrom(_, _, _, _)

(* The match of consume_string and of the handlers that take a leaf        *)
(* verbatim and evaluate a group.                                          *)
OwnedOrEvaluate(node, e) ==
    IF IsOwned(node) THEN Out(node.s, e) ELSE Evaluate(node, e)

(* consume_string: the next argument of the iterator, if there is one. *)
ConsumeString(args, i, e) ==
    IF i > Len(args)
    THEN [some |-> FALSE, out |-> "", e |-> e]
    ELSE Bind(OwnedOrEvaluate(args[i], e), LAMBDA r :
             [some |-> TRUE, out |-> r.out, e |-> r.e])

(* args.iter().map(|node| evaluator.evaluate(node)), from argument i on:    *)
(* the results in order and the evaluator after the last one.              *)
EvaluateAll(args, i, e) ==
    IF i > Len(args)
    THEN [outs |-> <<>>, e |-> e]
    ELSE Bind(Evaluate(args[i], e), LAMBDA r :
         Bind(EvaluateAll(args, i + 1, r.e), LAMBDA rest :
             [outs |-> <<r.out>> \o rest.outs, e |-> rest.e]))

RECURSIVE Join(_)
Join(outs) == IF outs = <<>> THEN "" ELSE Head(outs) \o Join(Tail(outs))

(* Dummy::handle *)
DummyHandle(e, args) == Ok("", e)

Reverse(seq) == [i \in 1..Len(seq) |-> seq[Len(seq) + 1 - i]]

(* Concat::handle evaluating its arguments from the last to the first. *)
ConcatHandle_RightToLeft(e, args) ==
    Bind(EvaluateAll(Reverse(args), 1, e), LAMBDA r : Ok(Join(Reverse(r.outs)), r.e))

(* Concat::handle *)
ConcatHandle(e, args) ==
    Bind(EvaluateAll(args, 1, e), LAMBDA r : Ok(Join(r.outs), r.e))

(* Let::handle, one pair of children.chunks(2) once its key and value are   *)
(* evaluated: the value is installed and the value it replaced is returned. *)
LetInstallPair(e, evaluated_key, evaluated_value) ==
    [e |-> [e EXCEPT !.ctx = MapInsert(@, evaluated_key, evaluated_value)],
     saved |-> [key |-> evaluated_key,
                original_value |->
                    IF evaluated_key \in DOMAIN e.ctx
                    THEN [some |-> TRUE, value |-> e.ctx[evaluated_key]]
                    ELSE [some |-> FALSE, value |-> Leaf("")]]]

(* The loop of Let::handle evaluating every key and value before it        *)
(* installs the first binding.                                             *)
RECURSIVE LetInstallTexts(_, _, _, _)
LetInstallTexts(texts, i, e, variables) ==
    IF i > Len(texts)
    THEN [e |-> e, variables |-> variables]
    ELSE Bind(LetInstallPair(e, texts[i], Leaf(texts[i + 1])), LAMBDA p :
             LetInstallTexts(texts, i + 2, p.e, Append(variables, p.saved)))

LetInstall_AllValuesFirst(children, i, e, variables) ==
    Bind(EvaluateAll(children, i, e), LAMBDA all :
        LetInstallTexts(all.outs, 1, all.e, variables))

(* Let::handle, the loop over children.chunks(2): each key and value is     *)
(* evaluated, installed, and the value it replaced is pushed on variables.  *)
LetInstall(children, i, e, variables) ==
    IF i > Len(children)
    THEN [e |-> e, variables |-> variables]
    ELSE Bind(Evaluate(children[i], e), LAMBDA k :
         Bind(Evaluate(children[i + 1], k.e), LAMBDA v :
         Bind(LetInstallPair(v.e, k.out, Leaf(v.out)), LAMBDA p :
             LetInstall(children, i + 2, p.e, Append(variables, p.saved)))))

(* Let::handle, one step of "for (key, original_value) in variables". *)
LetRestoreOne(ctx, saved) ==
    IF saved.original_value.some
    THEN MapInsert(ctx, saved.key, saved.original_value.value)
    ELSE MapRemove(ctx, saved.key)

(* Let::handle, the loop "for (key, original_value) in variables". *)
RECURSIVE LetRestore(_, _)
LetRestore(ctx, variables) ==
    IF variables = <<>>
    THEN ctx
    ELSE Bind(LetRestoreOne(ctx, Head(variables)), LAMBDA restored :
             LetRestore(restored, Tail(variables)))

(* Let::handle with the body evaluated before the bindings are installed. *)
LetHandle_BodyBeforeBindings(e, args) ==
    IF Len(args) < 1 THEN Err(e)
    ELSE IF IsOwned(args[1]) THEN Err(e)
    ELSE IF Len(args[1].c) % 2 # 0 THEN Err(e)
    ELSE Bind(ConcatHandle(e, Tail(args)), LAMBDA result :
         Bind(LetInstall(args[1].c, 1, result.e, <<>>), LAMBDA bound :
             [result EXCEPT !.e = [bound.e EXCEPT !.ctx = LetRestore(@, bound.variables)]]))

(* Let::handle installing the complete pairs of a binding list of odd      *)
(* length before it returns the error.                                     *)
LetHandle_OddInstallsPairs(e, args) ==
    IF Len(args) < 1 THEN Err(e)
    ELSE IF IsOwned(args[1]) THEN Err(e)
    ELSE IF Len(args[1].c) % 2 # 0
         THEN Bind(LetInstall(SubSeq(args[1].c, 1, Len(args[1].c) - 1), 1, e, <<>>),
                   LAMBDA bound : Err(bound.e))
    ELSE Bind(LetInstall(args[1].c, 1, e, <<>>), LAMBDA bound :
         Bind(ConcatHandle(bound.e, Tail(args)), LAMBDA result :
             [result EXCEPT !.e.ctx = LetRestore(@, bound.variables)]))

(* Let::handle *)
LetHandle(e, args) ==
    IF Len(args) < 1 THEN Err(e)
    ELSE IF IsOwned(args[1]) THEN Err(e)
    ELSE IF Len(args[1].c) % 2 # 0 THEN Err(e)
    ELSE Bind(LetInstall(args[1].c, 1, e, <<>>), LAMBDA bound :
         Bind(ConcatHandle(bound.e, Tail(args)), LAMBDA result :
             [result EXCEPT !.e.ctx = LetRestore(@, bound.variables)]))

(* Define::handle with the eager form storing the value's node as the lazy *)
(* form does.                                                              *)
DefineHandle_EagerStoresNode(e, args) ==
    Bind(ConsumeString(args, 1, e), LAMBDA arg1 :
        IF ~arg1.some THEN Err(arg1.e)
        ELSE IF Len(args) < 2 THEN Err(arg1.e)
        ELSE IF Len(args) > 3 THEN Err(arg1.e)
        ELSE IF Len(args) = 3
             THEN IF arg1.out # "evaluate" THEN Err(arg1.e)
                  ELSE Bind(Evaluate(args[2], arg1.e), LAMBDA key :
                           Ok("", [key.e EXCEPT !.ctx = MapInsert(@, key.out, args[3])]))
             ELSE Ok("", [arg1.e EXCEPT !.ctx = MapInsert(@, arg1.out, args[2])]))

(* Define::handle *)
DefineHandle(e, args) ==
    Bind(ConsumeString(args, 1, e), LAMBDA arg1 :
        IF ~arg1.some THEN Err(arg1.e)
        ELSE IF Len(args) < 2 THEN Err(arg1.e)
        ELSE IF Len(args) > 3 THEN Err(arg1.e)
        ELSE IF Len(args) = 3
             THEN IF arg1.out # "evaluate" THEN Err(arg1.e)
                  ELSE Bind(Evaluate(args[2], arg1.e), LAMBDA key :
                       Bind(Evaluate(args[3], key.e), LAMBDA evaluated :
                           Ok("", [evaluated.e EXCEPT
                                     !.ctx = MapInsert(@, key.out, Leaf(evaluated.out))])))
             ELSE Ok("", [arg1.e EXCEPT !.ctx = MapInsert(@, arg1.out, args[2])]))

(* Heading::handle *)
HeadingHandle(level, e, args) ==
    Bind(ConsumeString(args, 1, e), LAMBDA arg1 :
        IF ~arg1.some THEN Err(arg1.e)
        ELSE Bind(ConsumeString(args, 2, arg1.e), LAMBDA arg2 :
            IF arg2.some
            THEN Ok("\n" \o level \o " " \o arg2.out \o "\n",
                    [arg2.e EXCEPT !.refdefs =
                        MapInsert(@, arg1.out, RefDefNew(arg2.out, arg2.e.slug))])
            ELSE Ok("\n" \o level \o " " \o arg1.out \o "\n", arg2.e)))

(* RefDefDirective::handle keeping the RefDef an id already has. *)
RefDefDirectiveHandle_FirstWins(e, args) ==
    Bind(ConsumeString(args, 1, e), LAMBDA id :
        IF ~id.some THEN Err(id.e)
        ELSE Bind(ConsumeString(args, 2, id.e), LAMBDA title :
            IF ~title.some THEN Err(title.e)
            ELSE IF id.out \in DOMAIN title.e.refdefs THEN Ok("", title.e)
            ELSE Ok("", [title.e EXCEPT !.refdefs =
                            MapInsert(@, id.out, RefDefNew(title.out, title.e.slug))])))

(* RefDefDirective::handle *)
RefDefDirectiveHandle(e, args) ==
    Bind(ConsumeString(args, 1, e), LAMBDA id :
        IF ~id.some THEN Err(id.e)
        ELSE Bind(ConsumeString(args, 2, id.e), LAMBDA title :
            IF ~title.some THEN Err(title.e)
            ELSE Ok("", [title.e EXCEPT !.refdefs =
                            MapInsert(@, id.out, RefDefNew(title.out, title.e.slug))])))

(* RefDirective::handle asking for the Path placeholder where the title is  *)
(* missing.                                                                *)
RefDirectiveHandle_PathForTitle(e, args) ==
    Bind(ConsumeString(args, 1, e), LAMBDA refid :
        IF ~refid.some THEN Err(refid.e)
        ELSE Bind(ConsumeString(args, 2, refid.e), LAMBDA given :
             Bind(IF given.some THEN Out(given.out, given.e)
                  ELSE GetPlaceholder(given.e, refid.out, "Path"), LAMBDA title :
             Bind(GetPlaceholder(title.e, refid.out, "Path"), LAMBDA placeholder :
                 Ok("[" \o title.out \o "](" \o placeholder.out \o ")", placeholder.e)))))

(* RefDirective::handle requesting the Title placeholder also when a title  *)
(* is given.                                                               *)
RefDirectiveHandle_TitleAlways(e, args) ==
    Bind(ConsumeString(args, 1, e), LAMBDA refid :
        IF ~refid.some THEN Err(refid.e)
        ELSE Bind(ConsumeString(args, 2, refid.e), LAMBDA given :
             Bind(GetPlaceholder(given.e, refid.out, "Title"), LAMBDA token :
             Bind(IF given.some THEN Out(given.out, token.e) ELSE token, LAMBDA title :
             Bind(GetPlaceholder(title.e, refid.out, "Path"), LAMBDA placeholder :
                 Ok("[" \o title.out \o "](" \o placeholder.out \o ")", placeholder.e))))))

(* RefDirective::handle *)
RefDirectiveHandle(e, args) ==
    Bind(ConsumeString(args, 1, e), LAMBDA refid :
        IF ~refid.some THEN Err(refid.e)
        ELSE Bind(ConsumeString(args, 2, refid.e), LAMBDA given :
             Bind(IF given.some THEN Out(given.out, given.e)
                  ELSE GetPlaceholder(given.e, refid.out, "Title"), LAMBDA title :
             Bind(GetPlaceholder(title.e, refid.out, "Path"), LAMBDA placeholder :
                 Ok("[" \o title.out \o "](" \o placeholder.out \o ")", placeholder.e)))))

Max(a, b) == IF a > b THEN a ELSE b

(* Template::handle, the iterator chain: argument i (empty text past the    *)
(* call's arguments) is evaluated and then matched against checker i (none  *)
(* past the checkers); the first mismatch ends the collect.                 *)
TemplateArgs(handler, args, i, e, acc) ==
    IF i > Max(Len(args), Len(handler.checkers))
    THEN [ok |-> TRUE, args |-> acc, e |-> e]
    ELSE Bind(IF i > Len(args) THEN Out("", e) ELSE OwnedOrEvaluate(args[i], e),
              LAMBDA arg :
                 IF i <= Len(handler.checkers) /\ ~IsMatch(handler.checkers[i], arg.out)
                 THEN [ok |-> FALSE, args |-> acc, e |-> arg.e]
                 ELSE TemplateArgs(handler, args, i + 1, arg.e, Append(acc, arg.out)))

(* RE.replace_all(&self.template, ...) with RE = \$\{(\d)\} *)
RECURSIVE ReplaceMarkers(_, _, _)
ReplaceMarkers(template, i, args) ==
    IF i > Len(template) THEN ""
    ELSE IF /\ i + 3 <= Len(template)
            /\ SubSeq(template, i, i + 1) = "${"
            /\ IsDigit(SubSeq(template, i + 2, i + 2))
            /\ SubSeq(template, i + 3, i + 3) = "}"
         THEN Bind(DigitValue(SubSeq(template, i + 2, i + 2)), LAMBDA n :
                  (IF n + 1 <= Len(args) THEN args[n + 1] ELSE "")
                      \o ReplaceMarkers(template, i + 4, args))
         ELSE SubSeq(template, i, i) \o ReplaceMarkers(template, i + 1, args)

(* Template::handle taking the call's arguments alone, with no padding up   *)
(* to the number of checkers.                                              *)
TemplateHandle_NoPadding(handler, e, args) ==
    Bind(TemplateArgs([handler EXCEPT !.checkers =
                          SubSeq(@, 1, IF Len(@) < Len(args) THEN Len(@) ELSE Len(args))],
                      args, 1, e, <<>>), LAMBDA r :
        IF ~r.ok THEN Err(r.e)
        ELSE Ok(ReplaceMarkers(handler.template, 1, r.args), r.e))

(* Template::handle evaluating every argument before it validates the      *)
(* first.                                                                  *)
TemplateHandle_EvaluatesAllFirst(handler, e, args) ==
    Bind(EvaluateAll(args, 1, e), LAMBDA all :
    Bind(TemplateArgs(handler, [i \in 1..Len(all.outs) |-> Leaf(all.outs[i])], 1,
                      all.e, <<>>), LAMBDA r :
        IF ~r.ok THEN Err(r.e)
        ELSE Ok(ReplaceMarkers(handler.template, 1, r.args), r.e)))

(* Template::handle *)
TemplateHandle(handler, e, args) ==
    Bind(TemplateArgs(handler, args, 1, e, <<>>), LAMBDA r :
        IF ~r.ok THEN Err(r.e)
        ELSE Ok(ReplaceMarkers(handler.template, 1, r.args), r.e))

(* DefineTemplate::handle, the map over the remaining arguments: each is a  *)
(* pattern compiled with Regex::new; the first invalid one ends the collect.*)
DefineTemplateCheckers(args, i, e, acc) ==
    IF i > Len(args)
    THEN [ok |-> TRUE, checkers |-> acc, e |-> e]
    ELSE Bind(OwnedOrEvaluate(args[i], e), LAMBDA p :
             IF ~RegexValid(p.out)
             THEN [ok |-> FALSE, checkers |-> acc, e |-> p.e]
             ELSE DefineTemplateCheckers(args, i + 1, p.e, Append(acc, p.out)))

(* DefineTemplate::handle *)
DefineTemplateHandle(e, args) ==
    Bind(ConsumeString(args, 1, e), LAMBDA name :
        IF ~name.some THEN Err(name.e)
        ELSE Bind(ConsumeString(args, 2, name.e), LAMBDA template_text :
            IF ~template_text.some THEN Err(template_text.e)
            ELSE Bind(DefineTemplateCheckers(args, 3, template_text.e, <<>>), LAMBDA r :
                IF ~r.ok THEN Err(r.e)
                ELSE Ok("", Register(r.e, name.out,
                                     TemplateNew(template_text.out, r.checkers))))))

(* Version::handle: self.version[..n_components] panics when the argument  *)
(* has more components than the version.                                   *)
VersionHandle(handler, e, args) ==
    IF Len(args) = 0 THEN Ok(JoinDots(handler.version), e)
    ELSE IF Len(args) = 1
         THEN Bind(Evaluate(args[1], e), LAMBDA arg :
                  IF arg.out = "" THEN Ok("", arg.e)
                  ELSE Bind(CountDots(arg.out) + 1, LAMBDA n_components :
                           IF n_components > Len(handler.version)
                           THEN Panic(arg.e)
                           ELSE Ok(JoinDots(SubSeq(handler.version, 1, n_components)),
                                   arg.e)))
    ELSE Err(e)

(* Markdown::handle recording every non-empty title it extracts. *)
MarkdownHandle_LastWins(e, args) ==
    Bind(EvaluateAll(args, 1, e), LAMBDA body :
    Bind(MarkdownRender(Join(body.outs)), LAMBDA r :
        Ok(Trim(r.html),
           IF r.title # ""
           THEN [body.e EXCEPT !.theme_config = MapInsert(@, "title", r.title)]
           ELSE body.e)))

(* Markdown::handle *)
MarkdownHandle(e, args) ==
    Bind(EvaluateAll(args, 1, e), LAMBDA body :
    Bind(MarkdownRender(Join(body.outs)), LAMBDA r :
        Ok(Trim(r.html),
           IF r.title # "" /\ "title" \notin DOMAIN body.e.theme_config
           THEN [body.e EXCEPT !.theme_config = MapInsert(@, "title", r.title)]
           ELSE body.e)))

(* DefinitionList::handle, the map over the arguments from argument i on:   *)
(* the first argument that is a leaf or not a group of 2 ends the collect.  *)
DefinitionListSegments(args, i, e, segments) ==
    IF i > Len(args)
    THEN [ok |-> TRUE, segments |-> segments, e |-> e]
    ELSE IF IsOwned(args[i]) THEN [ok |-> FALSE, segments |-> segments, e |-> e]
    ELSE IF Len(args[i].c) # 2 THEN [ok |-> FALSE, segments |-> segments, e |-> e]
    ELSE Bind(Evaluate(args[i].c[1], e), LAMBDA term :
         Bind(Evaluate(args[i].c[2], term.e), LAMBDA body :
         Bind(MarkdownRender(body.out).html, LAMBDA definition :
             DefinitionListSegments(args, i + 1, body.e,
                 Append(segments,
                        "<dt>" \o term.out \o "</dt><dd>" \o definition \o "</dd>")))))

(* DefinitionList::handle leaving out the arguments that are malformed. *)
DefinitionListHandle_SkipsMalformed(e, args) ==
    Bind(DefinitionListSegments(
             SelectSeq(args, LAMBDA node : ~IsOwned(node) /\ Len(node.c) = 2),
             1, e, <<>>), LAMBDA r :
        IF r.ok THEN Ok(Join(r.segments), r.e) ELSE Err(r.e))

(* DefinitionList::handle *)
DefinitionListHandle(e, args) ==
    Bind(DefinitionListSegments(args, 1, e, <<>>), LAMBDA r :
        IF r.ok THEN Ok(Join(r.segments), r.e) ELSE Err(r.e))

(* ThemeConfig::handle, the loop over args.chunks(2) from argument i on. *)
ThemeConfigPairs(args, i, e) ==
    IF i > Len(args) THEN e
    ELSE Bind(Evaluate(args[i], e), LAMBDA key :
         Bind(Evaluate(args[i + 1], key.e), LAMBDA value :
             ThemeConfigPairs(args, i + 2,
                 [value.e EXCEPT !.theme_config = MapInsert(@, key.out, value.out)])))

(* ThemeConfig::handle keeping the value a key already has. *)
ThemeConfigHandle_KeepsExisting(e, args) ==
    IF Len(args) % 2 # 0 THEN Err(e)
    ELSE Bind(ThemeConfigPairs(args, 1, e), LAMBDA r :
             Ok("", [r EXCEPT !.theme_config =
                        [key \in DOMAIN @ |->
                            IF key \in DOMAIN e.theme_config
                            THEN e.theme_config[key] ELSE @[key]]]))

(* ThemeConfig::handle *)
ThemeConfigHandle(e, args) ==
    IF Len(args) % 2 # 0 THEN Err(e)
    ELSE Ok("", ThemeConfigPairs(args, 1, e))

(* Steps::handle, the closure parse_args *)
StepsParseArgs(args, e) ==
    IF Len(args) # 3 THEN [ok |-> FALSE, title |-> "", body |-> "", e |-> e]
    ELSE Bind(Evaluate(args[2], e), LAMBDA title :
         Bind(Evaluate(args[3], title.e), LAMBDA body :
             [ok |-> TRUE, title |-> title.out, body |-> body.out, e |-> body.e]))

(* Steps::handle, the match on step_node.value *)
StepsEntry(step_node, e) ==
    IF IsOwned(step_node)
    THEN IF step_node.s \notin DOMAIN e.ctx
         THEN [ok |-> FALSE, title |-> "", body |-> "", e |-> e]
         ELSE IF IsOwned(e.ctx[step_node.s])
              THEN [ok |-> FALSE, title |-> "", body |-> "", e |-> e]
              ELSE StepsParseArgs(e.ctx[step_node.s].c, e)
    ELSE StepsParseArgs(step_node.c, e)

(* Steps::handle, what one iteration pushes on result for step i + 1 *)
StepHtml(number, title, body) ==
    "<div class=\"steps__step\"><div class=\"steps__bullet\"><div class=\"steps__stepnumber\">"
        \o ToString(number) \o "</div></div>"
        \o "<h4>" \o title \o "</h4><div>" \o body \o "</div></div>"

(* Steps::handle, the loop over args.iter().enumerate() from argument i on *)
StepsFrom(args, i, e, result) ==
    IF i > Len(args)
    THEN Ok(Join(Append(result, "</div>")), e)
    ELSE Bind(StepsEntry(args[i], e), LAMBDA entry :
             IF ~entry.ok THEN Err(entry.e)
             ELSE Bind(MarkdownHandle(entry.e, <<Leaf(entry.title)>>), LAMBDA title :
                  Bind(MarkdownHandle(title.e, <<Leaf(entry.body)>>), LAMBDA body :
                      StepsFrom(args, i + 1, body.e,
                                Append(result, StepHtml(i, title.out, body.out))))))

(* Steps::handle returning the steps before the first malformed entry. *)
StepsHandle_PartialOutput(e, args) ==
    Bind(CHOOSE n \in 0..Len(args) :
             /\ \A i \in 1..n : StepsEntry(args[i], e).ok
             /\ n < Len(args) => ~StepsEntry(args[n + 1], e).ok, LAMBDA n :
        StepsFrom(SubSeq(args, 1, n), 1, e, <<"<div class=\"steps\">">>))

(* Steps::handle *)
StepsHandle(e, args) == StepsFrom(args, 1, e, <<"<div class=\"steps\">">>)

(* Slug::new *)
Slug(s) == s

(* Parser::parse: the node tree of a source file, or a failure.  The files  *)
(* that include and import name are looked up in a fixed table.            *)
Parsed(node) == [parsed |-> TRUE, node |-> node]
ParseError == [parsed |-> FALSE, node |-> Leaf("")]

PartFile ==
    Call("concat", <<Call("h3", <<Leaf("part"), Leaf("Part Title")>>), Leaf("inc")>>)

ParserFiles == [path \in {"part"} |-> PartFile]

ParserParse(path) ==
    IF path \in DOMAIN ParserFiles THEN Parsed(ParserFiles[path]) ELSE ParseError

(* Include::handle evaluating the file under a slug of its own. *)
IncludeHandle_OwnSlug(e, args) ==
    IF Len(args) # 1 THEN Err(e)
    ELSE Bind(Evaluate(args[1], e), LAMBDA path :
         Bind(ParserParse(path.out), LAMBDA node :
             IF ~node.parsed THEN Err(LogError(path.e))
             ELSE Bind(Evaluate(node.node, [path.e EXCEPT !.slug = Slug(path.out)]),
                       LAMBDA r : Ok(r.out, [r.e EXCEPT !.slug = e.slug]))))

(* Include::handle *)
IncludeHandle(e, args) ==
    IF Len(args) # 1 THEN Err(e)
    ELSE Bind(Evaluate(args[1], e), LAMBDA path :
         Bind(ParserParse(path.out), LAMBDA node :
             IF ~node.parsed THEN Err(LogError(path.e))
             ELSE Bind(Evaluate(node.node, path.e), LAMBDA r : Ok(r.out, r.e))))

(* Import::handle *)
ImportHandle(e, args) ==
    Bind(IncludeHandle(e, args), LAMBDA r : IF r.ok THEN Ok("", r.e) ELSE r)

(* TocTree::add *)
NoTitle == [some |-> FALSE, title |-> ""]
SomeTitle(title) == [some |-> TRUE, title |-> title]
TocTreeAdd(e, parent, child, title) ==
    [e EXCEPT !.toctree.entries =
        Append(@, [parent |-> parent, child |-> child, title |-> title])]

(* TocTree::handle, the loop over the arguments from argument i on *)
TocTreeFrom(args, i, e, current_slug) ==
    IF i > Len(args) THEN Ok("", e)
    ELSE IF IsOwned(args[i])
         THEN TocTreeFrom(args, i + 1,
                          TocTreeAdd(e, current_slug, Slug(args[i].s), NoTitle),
                          current_slug)
    ELSE IF Len(args[i].c) # 2 THEN Err(e)
    ELSE Bind(Evaluate(args[i].c[1], e), LAMBDA title :
         Bind(Evaluate(args[i].c[2], title.e), LAMBDA slug :
             TocTreeFrom(args, i + 1,
                         TocTreeAdd(slug.e, current_slug, Slug(slug.out),
                                    SomeTitle(title.out)),
                         current_slug)))

(* TocTree::handle checking every group before it adds the first entry. *)
TocTreeHandle_Atomic(e, args) ==
    IF \E i \in 1..Len(args) : ~IsOwned(args[i]) /\ Len(args[i].c) # 2
    THEN Err(e)
    ELSE TocTreeFrom(args, 1, e, e.slug)

TocTreeHandle(e, args) == TocTreeFrom(args, 1, e, e.slug)

(* DirectiveHandler::handle, dispatched on the handler the registry holds. *)
Handle(handler, e, args) ==
    CASE handler.h = "dummy" -> DummyHandle(e, args)
      [] handler.h = "concat" -> ConcatHandle(e, args)
      [] handler.h = "let" -> LetHandle(e, args)
      [] handler.h = "define" -> DefineHandle(e, args)
      [] handler.h = "heading" -> HeadingHandle(handler.level, e, args)
      [] handler.h = "define-ref" -> RefDefDirectiveHandle(e, args)
      [] handler.h = "ref" -> RefDirectiveHandle(e, args)
      [] handler.h = "define-template" -> DefineTemplateHandle(e, args)
      [] handler.h = "template" -> TemplateHandle(handler, e, args)
      [] handler.h = "version" -> VersionHandle(handler, e, args)
      [] handler.h = "md" -> MarkdownHandle(e, args)
      [] handler.h = "definition-list" -> DefinitionListHandle(e, args)
      [] handler.h = "theme-config" -> ThemeConfigHandle(e, args)
      [] handler.h = "steps" -> StepsHandle(e, args)
      [] handler.h = "include" -> IncludeHandle(e, args)
      [] handler.h = "import" -> ImportHandle(e, args)
      [] handler.h = "toctree" -> TocTreeHandle(e, args)

(* Evaluator::lookup: the stored node of a bound variable is evaluated at   *)
(* lookup time; an unbound name fails.                                     *)
Lookup(e, key) ==
    IF key \in DOMAIN e.ctx
    THEN Bind(Evaluate(e.ctx[key], e), LAMBDA r : Ok(r.out, r.e))
    ELSE Err(e)

(* Evaluator::evaluate: a leaf is its text; a group is a call of the        *)
(* directive, or a reference to the variable, named by its first child.     *)
(* It returns text: a failure is logged and yields empty text.  After a     *)
(* panic nothing is evaluated any more.                                    *)
Evaluate(node, e) ==
    IF e.panicked THEN Out("", e)
    ELSE IF IsOwned(node) THEN Out(node.s, e)
    ELSE IF node.c = <<>> \/ ~IsOwned(node.c[1])
         THEN Out("", LogError(e))
    ELSE Bind(IF node.c[1].s \in DOMAIN e.directives
              THEN Handle(e.directives[node.c[1].s], e, Tail(node.c))
              ELSE Lookup(e, node.c[1].s),
              LAMBDA r : IF r.ok \/ r.e.panicked THEN Out(r.out, r.e)
                         ELSE Out("", LogError(r.e)))

-----------------------------------------------------------------------------
(* Pass 2 *)


(* The path a reference to a page of the given slug resolves to. *)
SlugPath(slug) == "/" \o slug

IsPrefixAt(body, i, token) ==
    /\ i + Len(token) - 1 <= Len(body)
    /\ SubSeq(body, i, i + Len(token) - 1) = token

(* The field of a RefDef a placeholder stands for. *)
PlaceholderField(refdef, action) ==
    IF action = "Title" THEN refdef.title ELSE SlugPath(refdef.slug)

(* Evaluator::substitute, the scan from position i: every placeholder token *)
(* is replaced by the field of the RefDef of its id; an id the reference   *)
(* table does not hold fails the page.                                     *)
RECURSIVE SubstituteFrom(_, _, _)
SubstituteFrom(e, body, i) ==
    IF i > Len(body) THEN [ok |-> TRUE, out |-> ""]
    ELSE Bind({n \in 1..Len(e.placeholders) :
                  IsPrefixAt(body, i, e.placeholders[n].token)}, LAMBDA hits :
             IF hits = {}
             THEN Bind(SubstituteFrom(e, body, i + 1), LAMBDA rest :
                      [ok |-> rest.ok, out |-> SubSeq(body, i, i) \o rest.out])
             ELSE Bind(e.placeholders[CHOOSE n \in hits : TRUE], LAMBDA p :
                      IF p.refid \notin DOMAIN e.refdefs
                      THEN [ok |-> FALSE, out |-> ""]
                      ELSE Bind(SubstituteFrom(e, body, i + Len(p.token)), LAMBDA rest :
                               [ok |-> rest.ok,
                                out |-> PlaceholderField(e.refdefs[p.refid], p.action)
                                            \o rest.out])))

(* Evaluator::substitute *)
Substitute(e, page) == SubstituteFrom(e, page.body, 1)

(* Page::title *)
PageTitle(page) ==
    IF "title" \in DOMAIN page.theme_config THEN page.theme_config["title"] ELSE ""

(* TocTree::new_empty and TocTree::finish *)
TocTreeNewEmpty == [entries |-> <<>>, titles |-> EmptyMap, finished |-> FALSE]
TocTreeFinish(toctree, page_titles) ==
    [toctree EXCEPT !.titles = page_titles, !.finished = TRUE]

-----------------------------------------------------------------------------
(* Project *)

(* Evaluator::new_with_options followed by the register_prelude calls of    *)
(* build(). *)
Prelude ==
    [name \in {"md", "table", "version", "define-template", "definition-list",
               "steps", "concat", "include", "import", "null", "let", "define",
               "theme-config", "toctree", "define-ref", "ref",
               "h1", "h2", "h3", "h4", "h5", "h6"} |->
        CASE name \in {"table", "null"} -> Builtin("dummy")
          [] name = "version" -> VersionNew("3.4.0")
          [] name = "h1" -> HeadingNew("#")
          [] name = "h2" -> HeadingNew("##")
          [] name = "h3" -> HeadingNew("###")
          [] name = "h4" -> HeadingNew("####")
          [] name = "h5" -> HeadingNew("#####")
          [] name = "h6" -> HeadingNew("######")
          [] OTHER -> Builtin(name)]

EvaluatorNew ==
    [directives |-> Prelude,
     ctx |-> EmptyMap,
     theme_config |-> EmptyMap,
     refdefs |-> EmptyMap,
     toctree |-> TocTreeNewEmpty,
     slug |-> Slug(""),
     placeholders |-> <<>>,
     errors |-> 0,
     panicked |-> FALSE]

SetSlug(e, slug) == [e EXCEPT !.slug = slug]

NoPage == [source_path |-> "", slug |-> Slug(""), body |-> "", theme_config |-> EmptyMap]

(* build_file going on with an empty tree when the parser fails. *)
build_file_EvaluatesUnparsed(e, entry) ==
    Bind(Evaluate(entry.node, e), LAMBDA output :
        [ok |-> TRUE,
         page |-> [source_path |-> entry.path,
                   slug |-> output.e.slug,
                   body |-> output.out,
                   theme_config |-> output.e.theme_config],
         e |-> Reset(output.e)])

(* build_file taking the page's theme configuration after the reset. *)
build_file_SnapshotAfterReset(e, entry) ==
    IF ~entry.parsed
    THEN [ok |-> FALSE, page |-> NoPage, e |-> e]
    ELSE Bind(Evaluate(entry.node, e), LAMBDA output :
             [ok |-> TRUE,
              page |-> [source_path |-> entry.path,
                        slug |-> output.e.slug,
                        body |-> output.out,
                        theme_config |-> Reset(output.e).theme_config],
              e |-> Reset(output.e)])

(* build_file without the evaluator.reset() before it returns. *)
build_file_NoReset(e, entry) ==
    IF ~entry.parsed
    THEN [ok |-> FALSE, page |-> NoPage, e |-> e]
    ELSE Bind(Evaluate(entry.node, e), LAMBDA output :
             [ok |-> TRUE,
              page |-> [source_path |-> entry.path,
                        slug |-> output.e.slug,
                        body |-> output.out,
                        theme_config |-> output.e.theme_config],
              e |-> output.e])

(* build_file leaving a registry that holds the prelude alone. *)
build_file_PreludeRegistry(e, entry) ==
    IF ~entry.parsed
    THEN [ok |-> FALSE, page |-> NoPage, e |-> e]
    ELSE Bind(Evaluate(entry.node, e), LAMBDA output :
             [ok |-> TRUE,
              page |-> [source_path |-> entry.path,
                        slug |-> output.e.slug,
                        body |-> output.out,
                        theme_config |-> output.e.theme_config],
              e |-> [Reset(output.e) EXCEPT !.directives = Prelude]])

(* Project::build_file: entry.parsed is what the Parser answers for the     *)
(* path, a node or a failure.                                              *)
build_file(e, entry) ==
    IF ~entry.parsed
    THEN [ok |-> FALSE, page |-> NoPage, e |-> e]
    ELSE Bind(Evaluate(entry.node, e), LAMBDA output :
             [ok |-> TRUE,
              page |-> [source_path |-> entry.path,
                        slug |-> output.e.slug,
                        body |-> output.out,
                        theme_config |-> output.e.theme_config],
              e |-> Reset(output.e)])

(* link_file writing the page's body as it is when substitute fails. *)
link_file_WritesUnresolved(e, page) ==
    Bind(Substitute(e, page), LAMBDA new_body :
        IF ~new_body.ok
        THEN [result |-> "Ok", file |-> page.body]
        ELSE [result |-> "Ok", file |-> new_body.out])

(* Project::link_file: the error it returns, or "Ok" and the file written. *)
link_file(e, page) ==
    Bind(Substitute(e, page), LAMBDA new_body :
        IF ~new_body.ok
        THEN [result |-> "UndefinedReference", file |-> ""]
        ELSE [result |-> "Ok", file |-> new_body.out])

-----------------------------------------------------------------------------
(* The source files of a project: what the Parser answers for each. *)

DefPage ==
    Call("concat", <<Call("h2", <<Leaf("intro"), Leaf("Some Title")>>), Leaf("text")>>)
RefPage ==
    Call("concat", <<Leaf("see "), Call("ref", <<Leaf("intro")>>)>>)
UndefRefPage ==
    Call("concat", <<Leaf("see "), Call("ref", <<Leaf("nowhere")>>)>>)
FailPage ==
    Call("concat", <<Leaf("x"), Call("define", <<>>)>>)
VarDefPage ==
    Call("concat", <<Call("define", <<Leaf("foo"), Leaf("bar")>>), Call("foo", <<>>)>>)
VarUsePage ==
    Call("concat", <<Leaf("v="), Call("foo", <<>>)>>)
RedefPage ==
    Call("concat", <<Call("define-ref", <<Leaf("intro"), Leaf("Old Title")>>),
                     Call("ref", <<Leaf("intro")>>),
                     Call("define-ref", <<Leaf("intro"), Leaf("New Title")>>)>>)
TemplateDefPage ==
    Call("concat", <<Call("define-template",
                          <<Leaf("link"), Leaf("[${0}](${1})"), Leaf("^.+$"), Leaf("^/.*$")>>),
                     Call("link", <<Leaf("T"), Leaf("/p")>>)>>)
TemplateUsePage ==
    Call("concat", <<Call("link", <<Leaf("U"), Leaf("/q")>>)>>)

PageSources ==
    {Parsed(DefPage), Parsed(RefPage), Parsed(UndefRefPage), Parsed(FailPage),
     Parsed(VarDefPage), Parsed(VarUsePage), Parsed(TemplateDefPage),
     Parsed(TemplateUsePage), Parsed(RedefPage), ParseError}

SlugOf(i) == Slug("p" \o ToString(i))

NoCall ==
    [name |-> "", handler |-> Builtin("dummy"), args |-> <<>>, pre |-> EvaluatorNew,
     ok |-> TRUE, out |-> ""]

-----------------------------------------------------------------------------
(* Project::build_project *)

InitFiles(SourceLists) ==
    /\ pc = "build"
    /\ \E src \in SourceLists :
          files = [i \in 1..Len(src) |->
                      [path |-> SlugOf(i), parsed |-> src[i].parsed, node |-> src[i].node]]
    /\ nbuilt = 0
    /\ ev = EvaluatorNew
    /\ pending_pages = <<>>
    /\ titles = EmptyMap
    /\ renderer = [toctree |-> TocTreeNewEmpty]
    /\ nlinked = 0
    /\ written = EmptyMap
    /\ built = <<>>
    /\ link_results = <<>>
    /\ call = NoCall
    /\ ncalls = 0

InitProject(Sources) == InitFiles(UNION {[1..n -> Sources] : n \in 1..MaxPages})

Init == InitProject(PageSources)

(* One iteration of the walkdir loop: set_slug, build_file, and the match  *)
(* on its result.                                                          *)
BuildStep ==
    /\ pc = "build"
    /\ files # <<>>
    /\ \E entry \in {Head(files)} :
       \E r \in {build_file(SetSlug(ev, Slug(entry.path)), entry)} :
           /\ ev' = r.e
           /\ titles' = IF r.ok THEN MapInsert(titles, r.page.slug, PageTitle(r.page))
                        ELSE titles
           /\ pending_pages' = IF r.ok THEN Append(pending_pages, r.page) ELSE pending_pages
           /\ built' = Append(built, [path |-> entry.path, parsed |-> entry.parsed,
                                      node |-> entry.node, ok |-> r.ok,
                                      body |-> r.page.body,
                                      errors |-> r.e.errors - ev.errors,
                                      ctx_before |-> ev.ctx])
           /\ pc' = IF r.e.panicked THEN "panicked" ELSE pc
    /\ files' = Tail(files)
    /\ nbuilt' = nbuilt + 1
    /\ UNCHANGED <<renderer, nlinked, written, link_results, call, ncalls>>

(* The toctree finished and linking begun while source files remain. *)
FinishStep_BeforeLastFile ==
    /\ pc = "build"
    /\ renderer' = [toctree |-> TocTreeFinish(ev.toctree, titles)]
    /\ ev' = [ev EXCEPT !.toctree = TocTreeNewEmpty]
    /\ pc' = IF pending_pages = <<>> THEN "done" ELSE "link"
    /\ UNCHANGED <<files, nbuilt, pending_pages, titles, nlinked, written, built,
                   link_results, call, ncalls>>

(* After the loop: the toctree is taken out of the evaluator and finished,  *)
(* and the renderer is constructed around it.                              *)
FinishStep ==
    /\ pc = "build"
    /\ files = <<>>
    /\ renderer' = [toctree |-> TocTreeFinish(ev.toctree, titles)]
    /\ ev' = [ev EXCEPT !.toctree = TocTreeNewEmpty]
    /\ pc' = IF pending_pages = <<>> THEN "done" ELSE "link"
    /\ UNCHANGED <<files, nbuilt, pending_pages, titles, nlinked, written, built,
                   link_results, call, ncalls>>

(* One iteration of "for page in &pending_pages": link_file, whose error   *)
(* the expect turns into a panic.                                          *)
LinkStep ==
    /\ pc = "link"
    /\ nlinked < Len(pending_pages)
    /\ \E page \in {pending_pages[nlinked + 1]} :
       \E r \in {link_file(ev, page)} :
           /\ link_results' = Append(link_results, r.result)
           /\ written' = IF r.result = "Ok" THEN MapInsert(written, page.slug, r.file)
                         ELSE written
           /\ pc' = IF r.result # "Ok" THEN "panicked"
                    ELSE IF nlinked + 1 = Len(pending_pages) THEN "done"
                    ELSE "link"
    /\ nlinked' = nlinked + 1
    /\ UNCHANGED <<files, nbuilt, ev, pending_pages, titles, renderer, built, call, ncalls>>

Next == BuildStep \/ FinishStep \/ LinkStep

Spec == Init /\ [][Next]_vars

-----------------------------------------------------------------------------
(* A site whose pages set theme configuration, add toctree entries and      *)
(* pull in a file with include and import.                                  *)

ThemePage ==
    Call("concat", <<Call("theme-config", <<Leaf("k"), Leaf("v1")>>),
                     Call("md", <<Leaf("# Head")>>),
                     Call("toctree", <<Leaf("child"), Group(<<Leaf("T"), Leaf("sub")>>)>>)>>)
TitlePage ==
    Call("md", <<Leaf("# Other")>>)
HeadOnePage ==
    Call("h1", <<Leaf("intro")>>)
IncludePage ==
    Call("concat", <<Leaf("a "), Call("include", <<Leaf("part")>>)>>)
ImportPage ==
    Call("concat", <<Leaf("b "), Call("import", <<Leaf("part")>>)>>)

SiteSources ==
    {Parsed(ThemePage), Parsed(TitlePage), Parsed(HeadOnePage), Parsed(DefPage),
     Parsed(IncludePage), Parsed(ImportPage), ParseError}

InitSite == InitProject(SiteSources)

SpecSite == InitSite /\ [][Next]_vars

-----------------------------------------------------------------------------
(* Handler calls on one evaluator, as the tests of directives.rs make them. *)

project_vars == <<files, nbuilt, pending_pages, titles, renderer, nlinked, written,
                  built, link_results>>

InitHandlers(mode, e) ==
    /\ pc = mode
    /\ files = <<>>
    /\ nbuilt = 0
    /\ ev = e
    /\ pending_pages = <<>>
    /\ titles = EmptyMap
    /\ renderer = [toctree |-> TocTreeNewEmpty]
    /\ nlinked = 0
    /\ written = EmptyMap
    /\ built = <<>>
    /\ link_results = <<>>
    /\ call = NoCall
    /\ ncalls = 0

(* handler.handle(&mut evaluator, args) for a handler the test constructs *)
CallDirect(name, handler, args) ==
    \E r \in {Handle(handler, ev, args)} :
        /\ call' = [name |-> name, handler |-> handler, args |-> args, pre |-> ev,
                    ok |-> r.ok, out |-> r.out]
        /\ ev' = r.e
        /\ ncalls' = ncalls + 1
        /\ UNCHANGED <<pc, project_vars>>

(* handler.handle(&mut evaluator, args) for the handler registered as name *)
CallHandler(name, args) == CallDirect(name, ev.directives[name], args)

(* evaluator.lookup(node, key, args) *)
CallLookup(key) ==
    \E r \in {Lookup(ev, key)} :
        /\ call' = [name |-> "lookup", handler |-> Builtin("dummy"),
                    args |-> <<Leaf(key)>>, pre |-> ev, ok |-> r.ok, out |-> r.out]
        /\ ev' = r.e
        /\ ncalls' = ncalls + 1
        /\ UNCHANGED <<pc, project_vars>>

LazyExpr == Call("concat", <<Call("foo", <<>>), Leaf("bar")>>)

DefineArgs ==
    {<<Leaf("foo"), Leaf("bar")>>,
     <<Leaf("foo"), Leaf("baz")>>,
     <<Leaf("x"), LazyExpr>>,
     <<Leaf("evaluate"), Leaf("eager"), LazyExpr>>,
     <<Leaf("evaluate"), Leaf("eager"), Call("x", <<>>)>>,
     <<Leaf("eager"), Leaf("x"), Leaf("y")>>,
     <<>>}

LookupKeys == {"foo", "x", "eager"}

TestIndex == [EvaluatorNew EXCEPT !.slug = Slug("index")]

InitDefine == InitHandlers("define", TestIndex)

DefineCall ==
    /\ pc = "define"
    /\ ncalls < MaxCalls
    /\ \E args \in DefineArgs : CallHandler("define", args)

LookupCall ==
    /\ pc = "define"
    /\ ncalls < MaxCalls
    /\ \E key \in LookupKeys : CallLookup(key)

NextDefine == DefineCall \/ LookupCall

SpecDefine == InitDefine /\ [][NextDefine]_vars

-----------------------------------------------------------------------------
(* Let called on an evaluator whose context earlier defines have filled. *)

LetKeys == {"foo", "bar"}

LetValues == {Leaf("3"), Call("concat", <<Leaf("1"), Leaf("2")>>), Call("foo", <<>>)}

NestedLet ==
    Call("let", <<Group(<<Leaf("foo"), Leaf("7")>>),
                  Call("foo", <<>>),
                  Call("define", <<Leaf("bar"), Leaf("8")>>)>>)

LetBodyNodes ==
    {Call("foo", <<>>), Call("bar", <<>>),
     Call("define", <<Leaf("foo"), Leaf("9")>>), NestedLet}

SeqsUpTo(S, n) == UNION {[1..k -> S] : k \in 0..n}

(* The binding list (k1 v1 k2 v2 ...) of a sequence of key/value pairs. *)
RECURSIVE BindingChildren(_)
BindingChildren(pairs) ==
    IF pairs = <<>> THEN <<>>
    ELSE <<Leaf(Head(pairs)[1]), Head(pairs)[2]>> \o BindingChildren(Tail(pairs))

LetArgs ==
    {<<Group(BindingChildren(pairs))>> \o body :
        pairs \in SeqsUpTo(LetKeys \X LetValues, MaxPairs),
        body \in SeqsUpTo(LetBodyNodes, MaxBody)}

StoredNodes == {Leaf("a"), Call("concat", <<Leaf("b"), Leaf("c")>>)}

LetContexts == UNION {[keys -> StoredNodes] : keys \in SUBSET LetKeys}

InitLet == \E ctx \in LetContexts : InitHandlers("let", [TestIndex EXCEPT !.ctx = ctx])

LetCall ==
    /\ pc = "let"
    /\ ncalls = 0
    /\ \E args \in LetArgs : CallHandler("let", args)

NextLet == LetCall

SpecLet == InitLet /\ [][NextLet]_vars

-----------------------------------------------------------------------------
(* One call of a handler on an evaluator that earlier calls have brought    *)
(* into some state: define calls filled the context, a theme-config call    *)
(* set the title, a heading registered intro.                               *)

StepGroup == Group(<<Leaf("x"), Leaf("T1"), Leaf("B1")>>)

HandlerContexts ==
    {EmptyMap,
     [key \in {"foo", "step1", "lit", "short"} |->
        CASE key = "foo" -> Leaf("a")
          [] key = "step1" -> StepGroup
          [] key = "lit" -> Leaf("text")
          [] OTHER -> Group(<<Leaf("T0"), Leaf("B0")>>)]}

HandlerThemeConfigs == {EmptyMap, [key \in {"title"} |-> "Old"]}

HandlerRefDefs == {EmptyMap, [id \in {"intro"} |-> RefDefNew("Old Title", Slug("other"))]}

HandlerStates ==
    {[TestIndex EXCEPT !.ctx = ctx, !.theme_config = theme_config, !.refdefs = refdefs] :
        ctx \in HandlerContexts, theme_config \in HandlerThemeConfigs,
        refdefs \in HandlerRefDefs}

InitHandler == \E e \in HandlerStates : InitHandlers("handler", e)

(* an argument that changes the context when it is evaluated *)
DefineFoo == Call("define", <<Leaf("foo"), Leaf("9")>>)

RefArgNodes ==
    {Leaf("intro"), Leaf("A Title"), Call("concat", <<Leaf("in"), Leaf("tro")>>)}

RefArgs == SeqsUpTo(RefArgNodes, MaxArgs)

HeadingCall ==
    /\ pc = "handler"
    /\ ncalls = 0
    /\ \E args \in RefArgs : CallHandler("h2", args)

RefDefCall ==
    /\ pc = "handler"
    /\ ncalls = 0
    /\ \E args \in RefArgs : CallHandler("define-ref", args)

RefCall ==
    /\ pc = "handler"
    /\ ncalls = 0
    /\ \E args \in RefArgs : CallHandler("ref", args)

TemplateText == "[${0}](${1})${2}${5}"

Checkers == SeqsUpTo({"^.+$", "^/.*$", ".*"}, MaxCheckers)

TemplateArgNodes == {Leaf("T"), Leaf("/p"), Call("foo", <<>>), DefineFoo}

TemplateCall ==
    /\ pc = "handler"
    /\ ncalls = 0
    /\ \E checkers \in Checkers : \E args \in SeqsUpTo(TemplateArgNodes, MaxArgs) :
          CallDirect("template", TemplateNew(TemplateText, checkers), args)

VersionArgNodes ==
    {Leaf(""), Leaf("x"), Leaf("x.y"), Leaf("a.b.c.d"),
     Call("concat", <<Leaf("3."), Leaf("4")>>)}

VersionCall ==
    /\ pc = "handler"
    /\ ncalls = 0
    /\ \E args \in SeqsUpTo(VersionArgNodes, MaxArgs) : CallHandler("version", args)

ConcatArgNodes ==
    {Leaf("foo"), Call("foo", <<>>), DefineFoo, Call("version", <<Leaf("x.y")>>)}

ConcatCall ==
    /\ pc = "handler"
    /\ ncalls = 0
    /\ \E args \in SeqsUpTo(ConcatArgNodes, MaxArgs) : CallHandler("concat", args)

DefinitionListArgNodes ==
    {Leaf("bare"),
     Group(<<Leaf("term"), Leaf("body")>>),
     Group(<<Call("foo", <<>>), Call("concat", <<Leaf("b"), Leaf("2")>>)>>),
     Group(<<Leaf("alone")>>),
     Group(<<Leaf("term"), Leaf("body"), Leaf("more")>>)}

DefinitionListCall ==
    /\ pc = "handler"
    /\ ncalls = 0
    /\ \E args \in SeqsUpTo(DefinitionListArgNodes, MaxArgs) :
          CallHandler("definition-list", args)

StepsArgNodes ==
    {Group(<<Leaf("x"), Leaf("T2"), Call("foo", <<>>)>>),
     Group(<<Leaf("T3"), Leaf("B3")>>),
     Leaf("step1"), Leaf("lit"), Leaf("short"), Leaf("unbound")}

StepsCall ==
    /\ pc = "handler"
    /\ ncalls = 0
    /\ \E args \in SeqsUpTo(StepsArgNodes, MaxArgs) : CallHandler("steps", args)

ThemeConfigKeys == {Leaf("title"), Leaf("k")}

ThemeConfigValues == {Leaf("v1"), Leaf("v2"), Call("nowhere", <<>>)}

(* k1 v1 k2 v2 ... of a sequence of key/value pairs *)
RECURSIVE Flatten(_)
Flatten(pairs) ==
    IF pairs = <<>> THEN <<>> ELSE <<Head(pairs)[1], Head(pairs)[2]>> \o Flatten(Tail(pairs))

(* the even-length argument lists, and each with one more argument *)
ThemeConfigArgs ==
    {Flatten(pairs) \o extra :
        pairs \in SeqsUpTo(ThemeConfigKeys \X ThemeConfigValues, MaxPairs),
        extra \in {<<>>, <<Leaf("k")>>, <<Call("nowhere", <<>>)>>}}

ThemeConfigCall ==
    /\ pc = "handler"
    /\ ncalls = 0
    /\ \E args \in ThemeConfigArgs : CallHandler("theme-config", args)

MarkdownArgNodes ==
    {Leaf("# Head"), Leaf("plain"), Call("md", <<Leaf("# Inner")>>),
     Call("theme-config", <<Leaf("title"), Leaf("Set"), Leaf("k"), Leaf("v")>>)}

MarkdownCall ==
    /\ pc = "handler"
    /\ ncalls = 0
    /\ \E args \in SeqsUpTo(MarkdownArgNodes, MaxArgs) : CallHandler("md", args)

(* binding lists that are a bare literal, of odd length, or well formed,   *)
(* each followed by a body; and the empty argument list                    *)
LetErrorArgs ==
    {<<>>} \cup
    {<<bindings>> \o body :
        bindings \in {Leaf("foo"),
                      Group(<<DefineFoo>>),
                      Group(<<Leaf("foo"), Leaf("3"), Call("nowhere", <<>>)>>),
                      Group(<<Leaf("foo"), Leaf("3")>>)},
        body \in SeqsUpTo({DefineFoo, Call("nowhere", <<>>)}, MaxBody)}

LetErrorCall ==
    /\ pc = "handler"
    /\ ncalls = 0
    /\ \E args \in LetErrorArgs : CallHandler("let", args)

TocTreeArgNodes ==
    {Leaf("child"),
     Group(<<Call("foo", <<>>), Call("concat", <<Leaf("s"), Leaf("ub")>>)>>),
     Group(<<Leaf("alone")>>),
     Group(<<Leaf("a"), Leaf("b"), Leaf("c")>>)}

TocTreeCall ==
    /\ pc = "handler"
    /\ ncalls = 0
    /\ \E args \in SeqsUpTo(TocTreeArgNodes, MaxArgs) : CallHandler("toctree", args)

NextHandler ==
    \/ TocTreeCall
    \/ MarkdownCall
    \/ LetErrorCall
    \/ HeadingCall
    \/ RefDefCall
    \/ RefCall
    \/ TemplateCall
    \/ VersionCall
    \/ ConcatCall
    \/ DefinitionListCall
    \/ StepsCall
    \/ ThemeConfigCall

SpecHandler == InitHandler /\ [][NextHandler]_vars

-----------------------------------------------------------------------------
(* One node tree evaluated twice: a project of two source files with the    *)
(* same content, so that build_file evaluates the tree, resets the          *)
(* evaluator and evaluates the tree again.                                  *)

LinkDef ==
    Call("define-template", <<Leaf("link"), Leaf("[${0}](${1})"), Leaf("^.+$"), Leaf("^/.*$")>>)
LinkUse == Call("link", <<Leaf("T"), Leaf("/p")>>)
RefIntro == Call("ref", <<Leaf("intro")>>)

TwiceNodes ==
    {RefIntro, Call("h2", <<Leaf("intro"), Leaf("S")>>),
     Call("define", <<Leaf("foo"), Leaf("bar")>>), Call("foo", <<>>),
     Call("let", <<Group(<<Leaf("foo"), Leaf("3")>>), Call("foo", <<>>)>>),
     LinkDef, LinkUse}

TwiceTrees == {Call("concat", children) : children \in SeqsUpTo(TwiceNodes, MaxBody)}

InitTwice == InitFiles({<<Parsed(tree), Parsed(tree)>> : tree \in TwiceTrees})

SpecTwice == InitTwice /\ [][Next]_vars

-----------------------------------------------------------------------------
(* Properties of build_project *)

BuiltPages(node) == {i \in 1..Len(built) : built[i].parsed /\ built[i].node = node}

(* C1: no page enters pass 2 before pass 1 has ended for every source file  *)
(* and the toctree is finished: a step that links a page, and every step    *)
(* once a page has been linked, finds no source file left, the renderer's   *)
(* toctree finished, and leaves the reference table as it was.              *)
C1_PassTwoAfterPassOne ==
    [][(nlinked' # nlinked \/ nlinked > 0) =>
          /\ files = <<>>
          /\ files' = <<>>
          /\ built' = built
          /\ renderer.toctree.finished
          /\ ev'.refdefs = ev.refdefs]_vars

C1_Witness ==
    /\ pc = "done"
    /\ nlinked = 2
    /\ Len(built) = 3
    /\ DOMAIN ev.refdefs # {}

(* C3: a page holding ref(intro), where intro is registered by the heading  *)
(* h2(intro, Some Title) of one other page P and by no other page, is       *)
(* written with a link whose text is that title and whose path is that of   *)
(* P's slug, with no token left, whether P was built before or after it.    *)
C3_CrossPageRefResolved ==
    \A i \in BuiltPages(RefPage) : \A j \in BuiltPages(DefPage) :
        (/\ BuiltPages(DefPage) = {j}
         /\ BuiltPages(RedefPage) = {}
         /\ built[i].path \in DOMAIN written) =>
            written[built[i].path] =
                "see [Some Title](" \o SlugPath(Slug(built[j].path)) \o ")"

(* a forward and a backward reference to the same heading, both written *)
C3_Witness ==
    /\ BuiltPages(DefPage) = {2}
    /\ BuiltPages(RefPage) = {1, 3}
    /\ DOMAIN written = {SlugOf(1), SlugOf(2), SlugOf(3)}
    /\ written[SlugOf(1)] = "see [Some Title](/p2)"
    /\ built[1].body = "see [%0;](%1;)"

HasTokenOfUndefined(e, body) ==
    \E n \in 1..Len(e.placeholders) :
        /\ e.placeholders[n].refid \notin DOMAIN e.refdefs
        /\ \E i \in 1..Len(body) : IsPrefixAt(body, i, e.placeholders[n].token)

(* C4: link_file on a page whose body holds a placeholder of an id that no  *)
(* page registered returns UndefinedReference and writes no file for it.    *)
C4_UndefinedReference ==
    \A k \in 1..nlinked :
        HasTokenOfUndefined(ev, pending_pages[k].body) =>
            /\ link_results[k] = "UndefinedReference"
            /\ pending_pages[k].slug \notin DOMAIN written

C4_Witness ==
    /\ nlinked = 2
    /\ link_results = <<"Ok", "UndefinedReference">>
    /\ HasTokenOfUndefined(ev, pending_pages[2].body)
    /\ DOMAIN written = {pending_pages[1].slug}

(* C5: when build_project has ended, every pending page whose substitution  *)
(* succeeds has been written, whatever happened to the other pages.         *)
C5_LinkFailureIsLocal ==
    pc \in {"done", "panicked"} =>
        \A k \in 1..Len(pending_pages) :
            Substitute(ev, pending_pages[k]).ok => pending_pages[k].slug \in DOMAIN written

(* C6: a page during whose pass 1 a directive handler fails yields no Page  *)
(* and is not among the pending pages.                                     *)
C6_HandlerFailureDropsPage ==
    \A i \in BuiltPages(FailPage) :
        /\ ~built[i].ok
        /\ \A k \in 1..Len(pending_pages) : pending_pages[k].slug # Slug(built[i].path)

(* C7: the variable context is empty at the start of every page's pass 1,   *)
(* so a page that looks up a name an earlier page defined gets the          *)
(* undefined-variable failure.                                             *)
C7_NoBindingLeak ==
    /\ pc = "build" => ev.ctx = EmptyMap
    /\ \A i \in 1..Len(built) : built[i].ctx_before = EmptyMap
    /\ \A i \in BuiltPages(VarUsePage) : built[i].body = "v=" /\ built[i].errors = 1

C7_Witness ==
    /\ BuiltPages(VarDefPage) = {1}
    /\ BuiltPages(VarUsePage) = {2}
    /\ built[1].body = "bar"

LinkTemplate == TemplateNew("[${0}](${1})", <<"^.+$", "^/.*$">>)

(* C8: once a page has run define-template, the macro is in the registry    *)
(* with its template and checkers from then on, and is expanded in the rest *)
(* of that page and in every page built after it.                           *)
C8_MacroPersists ==
    \A i \in BuiltPages(TemplateDefPage) :
        /\ "link" \in DOMAIN ev.directives
        /\ ev.directives["link"] = LinkTemplate
        /\ built[i].body = "[T](/p)"
        /\ \A j \in BuiltPages(TemplateUsePage) :
              j > i => built[j].body = "[U](/q)" /\ built[j].errors = 0

C8_Witness ==
    /\ BuiltPages(TemplateDefPage) = {1}
    /\ BuiltPages(TemplateUsePage) = {3}
    /\ built[3].body = "[U](/q)"
    /\ Len(built) = 3

(* The pages built so far that register the id intro, and the title the    *)
(* last registering call of such a page gives it.                          *)
Registering == BuiltPages(DefPage) \cup BuiltPages(RedefPage)
RegisteredTitle(node) == IF node = DefPage THEN "Some Title" ELSE "New Title"

(* C11: the reference table maps intro to the title and slug of the most    *)
(* recent heading or define-ref call that registered it, on whichever page, *)
(* and every page written that holds ref(intro), evaluated before or after  *)
(* that call, shows that last title and path.                               *)
C11_LastWriterWins ==
    \A last \in Registering :
        (\A j \in Registering : j <= last) =>
            /\ "intro" \in DOMAIN ev.refdefs
            /\ ev.refdefs["intro"] =
                  RefDefNew(RegisteredTitle(built[last].node), Slug(built[last].path))
            /\ \A i \in 1..Len(built) :
                  built[i].path \in DOMAIN written =>
                      /\ (built[i].parsed /\ built[i].node = RefPage) =>
                            written[built[i].path] =
                                "see [" \o RegisteredTitle(built[last].node) \o "]("
                                    \o SlugPath(Slug(built[last].path)) \o ")"
                      /\ (built[i].parsed /\ built[i].node = RedefPage) =>
                            written[built[i].path] =
                                "[" \o RegisteredTitle(built[last].node) \o "]("
                                    \o SlugPath(Slug(built[last].path)) \o ")"

(* a ref evaluated before two redefinitions on later pages, and a ref        *)
(* between the two define-ref calls of one page                              *)
C11_Witness ==
    /\ pc = "done"
    /\ BuiltPages(RefPage) = {1}
    /\ BuiltPages(RedefPage) = {2}
    /\ BuiltPages(DefPage) = {3}
    /\ written[SlugOf(1)] = "see [Some Title](/p3)"
    /\ written[SlugOf(2)] = "[Some Title](/p3)"
    /\ pending_pages[2].body = "[%2;](%3;)"

-----------------------------------------------------------------------------
(* Properties of Let and Define *)

Binding(ctx, key) ==
    IF key \in DOMAIN ctx THEN <<"bound", ctx[key]>> ELSE <<"absent", Leaf("")>>

(* The keys the binding list of a let call names. *)
NamedKeys(args) == {args[1].c[i].s : i \in {n \in 1..Len(args[1].c) : n % 2 = 1}}

(* C2: after a let call every key its binding list names has the binding    *)
(* it had before the call.                                                 *)
C2_LetRestoresBindings ==
    (pc = "let" /\ call.name = "let") =>
        \A key \in NamedKeys(call.args) :
            Binding(ev.ctx, key) = Binding(call.pre.ctx, key)

(* The value nodes that read no variable. *)
ClosedValues == {Leaf("3"), Call("concat", <<Leaf("1"), Leaf("2")>>)}

(* The value the binding list gives a key: that of the last pair naming it. *)
GivenValue(children, key) ==
    children[1 + (CHOOSE n \in 1..Len(children) :
                     /\ n % 2 = 1
                     /\ children[n].s = key
                     /\ \A m \in (n + 1)..Len(children) :
                           m % 2 = 1 => children[m].s # key)]

(* C10: the body of a let is evaluated with the bindings installed and the  *)
(* results are concatenated in order: when the values given read no         *)
(* variable and the body consists of references to keys of the list, the    *)
(* result is the text of the values given for those keys, in body order.    *)
C10_LetBodySeesBindings ==
    (/\ pc = "let"
     /\ call.name = "let"
     /\ \A n \in 1..Len(call.args[1].c) : n % 2 = 0 => call.args[1].c[n] \in ClosedValues
     /\ \A n \in 2..Len(call.args) :
           /\ call.args[n] \in {Call("foo", <<>>), Call("bar", <<>>)}
           /\ call.args[n].c[1].s \in NamedKeys(call.args))
    => /\ call.ok
       /\ call.out = Join([n \in 1..(Len(call.args) - 1) |->
                            Evaluate(GivenValue(call.args[1].c, call.args[n + 1].c[1].s),
                                     TestIndex).out])

C10_Witness ==
    /\ call.name = "let"
    /\ call.args = <<Group(<<Leaf("foo"), Call("concat", <<Leaf("1"), Leaf("2")>>),
                            Leaf("bar"), Leaf("3")>>),
                     Call("foo", <<>>), Call("bar", <<>>)>>
    /\ call.out = "123"
    /\ "foo" \in DOMAIN call.pre.ctx

DefinedKey(args) == IF Len(args) = 3 THEN args[2].s ELSE args[1].s

(* C9: define(key, value) stores the node, so a lookup reads the bindings   *)
(* of its own time; define(evaluate, key, value) stores the text the value  *)
(* has when it is defined.  With x lazily and eager eagerly defined from    *)
(* concat(foo, bar), a redefinition of foo shows in the next lookup of x    *)
(* and leaves the lookup of eager as it was.                                *)
C9_LazyAndEagerDefine ==
    [][(pc = "define" /\ call'.name = "define" /\ call'.ok /\ ncalls' = ncalls + 1) =>
          /\ Len(call'.args) = 2 => ev'.ctx[DefinedKey(call'.args)] = call'.args[2]
          /\ Len(call'.args) = 3 =>
                ev'.ctx[DefinedKey(call'.args)] = Leaf(Evaluate(call'.args[3], ev).out)
          /\ (DefinedKey(call'.args) = "foo" /\ Binding(ev.ctx, "x") = <<"bound", LazyExpr>>) =>
                Lookup(ev', "x").out = call'.args[2].s \o "bar"
          /\ (DefinedKey(call'.args) = "foo" /\ "eager" \in DOMAIN ev.ctx) =>
                Lookup(ev', "eager").out = Lookup(ev, "eager").out]_vars

(* the test of directives.rs: foo, x, eager, then foo redefined *)
C9_Witness ==
    /\ pc = "define"
    /\ call.name = "define"
    /\ call.args = <<Leaf("foo"), Leaf("baz")>>
    /\ Lookup(call.pre, "x").out = "barbar"
    /\ Lookup(call.pre, "eager").out = "barbar"
    /\ Lookup(ev, "x").out = "bazbar"
    /\ Lookup(ev, "eager").out = "barbar"

-----------------------------------------------------------------------------
(* Properties of single handler calls *)

(* The text of each argument of the last call, evaluated in argument order  *)
(* from the state the call started in.                                     *)
ArgTexts == EvaluateAll(call.args, 1, call.pre).outs

(* C12: a heading called with no argument or with more than two arguments   *)
(* returns an error, registers no RefDef and emits no heading text.         *)
C12_HeadingArity ==
    (pc = "handler" /\ call.name = "h2" /\ (Len(call.args) = 0 \/ Len(call.args) > 2)) =>
        /\ ~call.ok
        /\ call.out = ""
        /\ ev.refdefs = call.pre.refdefs

(* C13: define-ref with two arguments registers id -> (title, current slug) *)
(* and returns empty text; with any other number of arguments it returns an *)
(* error and leaves the reference table unchanged.                          *)
C13_RefDefArity ==
    (pc = "handler" /\ call.name = "define-ref") =>
        IF Len(call.args) = 2
        THEN /\ call.ok
             /\ call.out = ""
             /\ ev.refdefs = MapInsert(call.pre.refdefs, ArgTexts[1],
                                       RefDefNew(ArgTexts[2], call.pre.slug))
        ELSE /\ ~call.ok
             /\ ev.refdefs = call.pre.refdefs

(* The argument list of the last call padded with empty text up to the      *)
(* number of checkers of its handler.                                      *)
PaddedArgs ==
    [i \in 1..Max(Len(call.args), Len(call.handler.checkers)) |->
        IF i <= Len(call.args) THEN ArgTexts[i] ELSE ""]

(* The text marker ${N} stands for. *)
Marker(N) == IF N + 1 <= Len(PaddedArgs) THEN PaddedArgs[N + 1] ELSE ""

(* C14: a template call fails exactly when, at some position that has a     *)
(* checker, the argument (empty text when the call has none there) does not *)
(* match it; when it succeeds the result is the template text with each     *)
(* ${N} replaced by the N-th padded argument, empty text outside the list.  *)
C14_TemplateChecks ==
    (pc = "handler" /\ call.name = "template") =>
        /\ ~call.ok <=> \E i \in 1..Len(call.handler.checkers) :
                            ~IsMatch(call.handler.checkers[i], PaddedArgs[i])
        /\ call.ok => call.out = "[" \o Marker(0) \o "](" \o Marker(1) \o ")"
                                      \o Marker(2) \o Marker(5)

(* two checkers and one argument: the missing argument is validated as      *)
(* empty text and substituted as empty text; ${2} and ${5} are out of range *)
C14_Witness ==
    /\ pc = "handler"
    /\ call.name = "template"
    /\ call.handler.checkers = <<"^.+$", ".*">>
    /\ call.args = <<Leaf("T")>>
    /\ call.ok
    /\ call.out = "[T]()"

Min(a, b) == IF a < b THEN a ELSE b

(* C15: Version(v) returns v with no argument, empty text for an argument   *)
(* that evaluates to empty text, the first count('.', s) + 1 components of  *)
(* v for an argument that evaluates to a non-empty s, whatever s is, and an *)
(* error with two or more arguments; it never aborts the process.           *)
C15_VersionTruncates ==
    (pc = "handler" /\ call.name = "version") =>
        /\ ~ev.panicked
        /\ Len(call.args) = 0 => call.ok /\ call.out = "3.4.0"
        /\ (Len(call.args) = 1 /\ ArgTexts[1] = "") => call.ok /\ call.out = ""
        /\ (Len(call.args) = 1 /\ ArgTexts[1] # "") =>
              /\ call.ok
              /\ call.out = JoinDots(SubSeq(call.handler.version, 1,
                                 Min(CountDots(ArgTexts[1]) + 1, Len(call.handler.version))))
        /\ Len(call.args) >= 2 => ~call.ok

(* Concat called on each argument alone, one after the other, each call     *)
(* starting in the state the one before it left.                            *)
RECURSIVE ConcatOneByOne(_, _)
ConcatOneByOne(args, e) ==
    IF args = <<>> THEN Ok("", e)
    ELSE Bind(ConcatHandle(e, <<Head(args)>>), LAMBDA first :
         Bind(ConcatOneByOne(Tail(args), first.e), LAMBDA rest :
             Ok(first.out \o rest.out, rest.e)))

(* C16: Concat of an argument list returns, and leaves the evaluator as,    *)
(* the Concat calls of its arguments one by one in argument order do, also  *)
(* when an argument changes the context; Concat of no argument is empty.    *)
C16_ConcatAssociative ==
    (pc = "handler" /\ call.name = "concat") =>
        /\ call.ok
        /\ call.out = ConcatOneByOne(call.args, call.pre).out
        /\ ev = ConcatOneByOne(call.args, call.pre).e
        /\ call.args = <<>> => call.out = ""

(* foo read, redefined by the second argument, and read again *)
C16_Witness ==
    /\ pc = "handler"
    /\ call.name = "concat"
    /\ call.args = <<Call("foo", <<>>), DefineFoo, Call("foo", <<>>)>>
    /\ call.pre.ctx # EmptyMap
    /\ call.out = "a9"

RECURSIVE AllChildren(_)
AllChildren(groups) ==
    IF groups = <<>> THEN <<>> ELSE Head(groups).c \o AllChildren(Tail(groups))

(* The text of every child of the groups, evaluated in order. *)
ChildTexts == EvaluateAll(AllChildren(call.args), 1, call.pre).outs

(* C17: a definition list with an argument, at any position, that is a leaf *)
(* or a group of a length other than 2 returns an error and no output;      *)
(* otherwise it returns one <dt>term</dt><dd>body</dd> per argument, in     *)
(* argument order, the body rendered as Markdown.                           *)
C17_DefinitionList ==
    (pc = "handler" /\ call.name = "definition-list") =>
        IF \E i \in 1..Len(call.args) : IsOwned(call.args[i]) \/ Len(call.args[i].c) # 2
        THEN ~call.ok /\ call.out = ""
        ELSE /\ call.ok
             /\ call.out = Join([i \in 1..Len(call.args) |->
                                  "<dt>" \o ChildTexts[2 * i - 1] \o "</dt><dd>"
                                      \o MarkdownRender(ChildTexts[2 * i]).html \o "</dd>"])

(* a malformed argument after two well-formed ones *)
C17_Witness ==
    /\ pc = "handler"
    /\ call.name = "definition-list"
    /\ Len(call.args) = 3
    /\ call.args[1] = Group(<<Leaf("term"), Leaf("body")>>)
    /\ call.args[2] = Group(<<Call("foo", <<>>), Call("concat", <<Leaf("b"), Leaf("2")>>)>>)
    /\ call.args[3] = Leaf("bare")
    /\ ~call.ok
    /\ call.out = ""

(* The three nodes of a well-formed step entry: those of the group, or of   *)
(* the stored node of the variable a leaf names.                            *)
StepWellFormed(node, ctx) ==
    IF IsOwned(node)
    THEN node.s \in DOMAIN ctx /\ ~IsOwned(ctx[node.s]) /\ Len(ctx[node.s].c) = 3
    ELSE Len(node.c) = 3
StepFields(node, ctx) == IF IsOwned(node) THEN ctx[node.s].c ELSE node.c

StepText(node) == Trim(MarkdownRender(Evaluate(node, call.pre).out).html)

(* C18: steps with an entry, at any position, that is a group of a length   *)
(* other than 3, a leaf naming an unbound variable, or a leaf naming a      *)
(* variable whose stored node is not a 3-node group, returns an error and   *)
(* no output; otherwise it returns one step per argument, in argument       *)
(* order, numbered from 1.                                                  *)
C18_Steps ==
    (pc = "handler" /\ call.name = "steps") =>
        IF \E i \in 1..Len(call.args) : ~StepWellFormed(call.args[i], call.pre.ctx)
        THEN ~call.ok /\ call.out = ""
        ELSE /\ call.ok
             /\ call.out =
                  "<div class=\"steps\">"
                  \o Join([i \in 1..Len(call.args) |->
                        "<div class=\"steps__step\"><div class=\"steps__bullet\">"
                        \o "<div class=\"steps__stepnumber\">" \o ToString(i)
                        \o "</div></div><h4>"
                        \o StepText(StepFields(call.args[i], call.pre.ctx)[2])
                        \o "</h4><div>"
                        \o StepText(StepFields(call.args[i], call.pre.ctx)[3])
                        \o "</div></div>"])
                  \o "</div>"

(* a stored step and an inline step, then a variable that holds a leaf *)
C18_Witness ==
    /\ pc = "handler"
    /\ call.name = "steps"
    /\ Len(call.args) = 3
    /\ call.args[1] = Leaf("step1")
    /\ call.args[2] = Group(<<Leaf("x"), Leaf("T2"), Call("foo", <<>>)>>)
    /\ call.args[3] = Leaf("lit")
    /\ "lit" \in DOMAIN call.pre.ctx
    /\ ~call.ok
    /\ call.out = ""

Placeholder(n, refid, action) ==
    [token |-> PlaceholderToken(n), refid |-> refid, action |-> action]

(* C19: ref with no argument fails and requests no placeholder; with an id  *)
(* alone it requests a Title and then a Path placeholder for the id and     *)
(* emits [titleToken](pathToken); with a title it requests the Path         *)
(* placeholder alone and the title is the link text; registered id or not.  *)
C19_RefPlaceholders ==
    (pc = "handler" /\ call.name = "ref") =>
        /\ Len(call.args) = 0 => ~call.ok /\ ev.placeholders = call.pre.placeholders
        /\ Len(call.args) = 1 =>
              /\ call.ok
              /\ ev.placeholders = call.pre.placeholders \o
                    <<Placeholder(Len(call.pre.placeholders), ArgTexts[1], "Title"),
                      Placeholder(Len(call.pre.placeholders) + 1, ArgTexts[1], "Path")>>
              /\ call.out = "[" \o PlaceholderToken(Len(call.pre.placeholders)) \o "]("
                                \o PlaceholderToken(Len(call.pre.placeholders) + 1) \o ")"
        /\ Len(call.args) >= 2 =>
              /\ call.ok
              /\ ev.placeholders = call.pre.placeholders \o
                    <<Placeholder(Len(call.pre.placeholders), ArgTexts[1], "Path")>>
              /\ call.out = "[" \o ArgTexts[2] \o "]("
                                \o PlaceholderToken(Len(call.pre.placeholders)) \o ")"

(* a ref with a title to an id no heading has registered *)
C19_Witness ==
    /\ pc = "handler"
    /\ call.name = "ref"
    /\ call.args = <<Leaf("intro"), Leaf("A Title")>>
    /\ "intro" \notin DOMAIN ev.refdefs
    /\ call.ok
    /\ call.out = "[A Title](%0;)"
    /\ Len(ev.placeholders) = 1

(* The positions of the keys of the last call's pairs that name key. *)
KeyPositions(key) ==
    {i \in 1..Len(call.args) : i % 2 = 1 /\ ArgTexts[i] = key}

(* C20: theme-config with an odd number of arguments returns an error and   *)
(* leaves the evaluator as it was, no argument evaluated; with an even      *)
(* number it returns empty text and each key named holds the value of the   *)
(* last pair naming it, every other key the value it had.                   *)
C20_ThemeConfig ==
    (pc = "handler" /\ call.name = "theme-config") =>
        IF Len(call.args) % 2 = 1
        THEN ~call.ok /\ ev = call.pre
        ELSE /\ call.ok
             /\ call.out = ""
             /\ DOMAIN ev.theme_config =
                   DOMAIN call.pre.theme_config \cup
                       {ArgTexts[i] : i \in {n \in 1..Len(call.args) : n % 2 = 1}}
             /\ \A key \in DOMAIN ev.theme_config :
                   ev.theme_config[key] =
                       IF KeyPositions(key) = {} THEN call.pre.theme_config[key]
                       ELSE ArgTexts[1 + CHOOSE i \in KeyPositions(key) :
                                            \A j \in KeyPositions(key) : j <= i]

(* the title set by an earlier call, then named by two pairs *)
C20_Witness ==
    /\ pc = "handler"
    /\ call.name = "theme-config"
    /\ call.args = <<Leaf("title"), Leaf("v1"), Leaf("title"), Leaf("v2")>>
    /\ call.pre.theme_config = [key \in {"title"} |-> "Old"]
    /\ ev.theme_config = [key \in {"title"} |-> "v2"]

-----------------------------------------------------------------------------
(* The evaluator after the arguments of the call were evaluated, and the    *)
(* title the renderer extracts from their joined text.                     *)
MarkdownBody == EvaluateAll(call.args, 1, call.pre)
MarkdownTitle == MarkdownRender(Join(MarkdownBody.outs)).title

(* C21: a Markdown call records the title it extracts only when that title  *)
(* is not empty and the theme configuration holds no "title" yet: a title   *)
(* that is set when the body has been evaluated (by theme-config, or by an  *)
(* earlier Markdown call) stays as it is, and no other key of the theme     *)
(* configuration is added, removed or changed.                             *)
C21_MarkdownTitleFirstWins ==
    (pc = "handler" /\ ncalls = 1 /\ call.name = "md") =>
        /\ call.ok
        /\ DOMAIN ev.theme_config \ {"title"} =
               DOMAIN MarkdownBody.e.theme_config \ {"title"}
        /\ \A key \in DOMAIN ev.theme_config \ {"title"} :
               ev.theme_config[key] = MarkdownBody.e.theme_config[key]
        /\ "title" \in DOMAIN MarkdownBody.e.theme_config =>
               /\ "title" \in DOMAIN ev.theme_config
               /\ ev.theme_config["title"] = MarkdownBody.e.theme_config["title"]
        /\ "title" \notin DOMAIN MarkdownBody.e.theme_config =>
               IF MarkdownTitle = ""
               THEN "title" \notin DOMAIN ev.theme_config
               ELSE /\ "title" \in DOMAIN ev.theme_config
                    /\ ev.theme_config["title"] = MarkdownTitle

(* a heading is rendered while a title is already set: the title stays *)
C21_Witness ==
    /\ pc = "handler" /\ ncalls = 1 /\ call.name = "md"
    /\ call.args = <<Leaf("# Head"), Call("md", <<Leaf("# Inner")>>)>>
    /\ "title" \notin DOMAIN call.pre.theme_config
    /\ MarkdownTitle = "Head<h1>Inner</h1>"
    /\ ev.theme_config["title"] = "Inner"

-----------------------------------------------------------------------------
(* the pages to be linked that were built from the given node tree *)
PagesOf(node) ==
    {j \in 1..Len(pending_pages) :
        \E i \in BuiltPages(node) : pending_pages[j].source_path = built[i].path}

(* the toctree of the project: in the evaluator during pass 1, then in the  *)
(* renderer                                                                 *)
ProjectTocTree == IF renderer.toctree.finished THEN renderer.toctree ELSE ev.toctree

EntriesUnder(parent) ==
    SelectSeq(ProjectTocTree.entries, LAMBDA entry : entry.parent = parent)

(* the theme configuration the directives of a page set *)
SetByPage(node) ==
    IF node = ThemePage THEN [key \in {"k", "title"} |-> IF key = "k" THEN "v1" ELSE "Head"]
    ELSE IF node = TitlePage THEN [key \in {"title"} |-> "Other"]
    ELSE EmptyMap

(* C22: the theme configuration of every page to be linked is what the      *)
(* directives of that page set, as it was at the end of the page's pass 1:  *)
(* no key or title of a page built earlier is in it, and the title map      *)
(* holds the page's own title.  The toctree entries and the reference table *)
(* entries a page created are still there after the reset and after every   *)
(* later page.                                                              *)
C22_ThemeConfigPerPage ==
    /\ \A i \in 1..Len(built) : built[i].parsed =>
           /\ PagesOf(built[i].node) # {}
           /\ \A j \in PagesOf(built[i].node) :
                  pending_pages[j].theme_config = SetByPage(built[i].node)
           /\ titles[built[i].path] =
                  (IF built[i].node = ThemePage THEN "Head"
                   ELSE IF built[i].node = TitlePage THEN "Other" ELSE "")
    /\ pc = "build" => ev.theme_config = EmptyMap
    /\ \A i \in BuiltPages(ThemePage) :
           EntriesUnder(built[i].path) =
              <<[parent |-> built[i].path, child |-> "child", title |-> NoTitle],
                [parent |-> built[i].path, child |-> "sub", title |-> SomeTitle("T")]>>
    /\ BuiltPages(DefPage) # {} => "intro" \in DOMAIN ev.refdefs
    /\ (BuiltPages(IncludePage) \cup BuiltPages(ImportPage)) # {} =>
           "part" \in DOMAIN ev.refdefs

(* a page that sets a key and a title, then a page that sets its own title, *)
(* then a page that sets nothing                                            *)
C22_Witness ==
    /\ pc = "done"
    /\ BuiltPages(ThemePage) = {1}
    /\ BuiltPages(TitlePage) = {2}
    /\ BuiltPages(DefPage) = {3}
    /\ pending_pages[2].theme_config = [key \in {"title"} |-> "Other"]
    /\ pending_pages[3].theme_config = EmptyMap
    /\ Len(renderer.toctree.entries) = 2
    /\ "intro" \in DOMAIN ev.refdefs

-----------------------------------------------------------------------------
(* the children of the tree that was evaluated twice *)
TwiceChildren == built[1].node.c

(* C23 as stated: the two evaluations of a tree, each from a freshly reset  *)
(* evaluator, give the same output text, whatever calls the tree holds.     *)
C23_SameOutputTwice ==
    (Len(built) = 2 /\ built[1].node = built[2].node) => built[1].body = built[2].body

(* no ref call in the tree, and no call of the macro that comes before the  *)
(* first define-template of the tree that registers it                      *)
NoRefNoEarlyMacro ==
    /\ \A i \in 2..Len(TwiceChildren) : TwiceChildren[i] # RefIntro
    /\ \A i, j \in 2..Len(TwiceChildren) :
           (i < j /\ TwiceChildren[i] = LinkUse /\ TwiceChildren[j] = LinkDef) =>
               \E k \in 2..(i - 1) : TwiceChildren[k] = LinkDef

(* C23: the two evaluations of a tree, each from a freshly reset evaluator, *)
(* give the same output text when the tree holds no ref call and calls no   *)
(* macro before the define-template of the tree that registers it; trees    *)
(* with define, let, headings and define-template followed by the macro's   *)
(* call are among them.                                                     *)
C23_SameOutputTwiceWithoutRef ==
    (Len(built) = 2 /\ built[1].node = built[2].node /\ NoRefNoEarlyMacro) =>
        built[1].body = built[2].body

(* a tree that defines a macro and calls it, evaluated twice *)
C23_Witness ==
    /\ Len(built) = 2
    /\ TwiceChildren = <<Leaf("concat"), LinkDef, LinkUse>>
    /\ built[1].body = "[T](/p)"
    /\ built[2].body = "[T](/p)"

-----------------------------------------------------------------------------
(* C24: when the parser fails on a source file, the step of the build loop  *)
(* leaves the evaluator as set_slug left it (context, theme configuration,  *)
(* registry, reference table, toctree, placeholders and error count         *)
(* unchanged), adds no page to the pages to be linked and no title to the   *)
(* title map, and goes on with the next file.  So every file that parses is *)
(* built into a page to be linked whatever files failed before it, a file   *)
(* that failed is never written and has no title in the finished toctree,   *)
(* and a build that ends has written every page.                            *)
C24_ParseFailureSkipsPage ==
    /\ [][(pc = "build" /\ files # <<>> /\ ~Head(files).parsed) =>
             /\ ev' = SetSlug(ev, Slug(Head(files).path))
             /\ pending_pages' = pending_pages
             /\ titles' = titles
             /\ files' = Tail(files)
             /\ pc' = "build"]_vars
    /\ [](/\ \A i \in 1..Len(built) :
                 IF built[i].parsed
                 THEN \E j \in 1..Len(pending_pages) :
                         pending_pages[j].source_path = built[i].path
                 ELSE /\ built[i].path \notin DOMAIN written
                      /\ built[i].path \notin DOMAIN titles
                      /\ built[i].path \notin DOMAIN renderer.toctree.titles
          /\ (pc # "build") => (files = <<>>)
          /\ (pc = "done") =>
                 \A i \in 1..Len(built) :
                     built[i].parsed => (built[i].path \in DOMAIN written))

(* a file that fails to parse between two files that are built and linked *)
C24_Witness ==
    /\ pc = "done"
    /\ Len(built) = 3
    /\ ~built[2].parsed
    /\ BuiltPages(DefPage) = {1}
    /\ BuiltPages(RefPage) = {3}
    /\ DOMAIN written = {built[1].path, built[3].path}
    /\ ev.slug = built[3].path

-----------------------------------------------------------------------------
(* the file the build loop is about to build *)
NextFile == Head(files)

(* C25: building a page whose heading has one argument leaves the reference *)
(* table as it was; building a page whose heading has two arguments, or a   *)
(* page that pulls in a file holding such a heading with include or import, *)
(* inserts exactly the entry refId -> (title, slug) where slug is the slug   *)
(* of the page being built, the included file having none of its own.       *)
(* Hence every RefDef carries the slug of a source file whose pass 1 has    *)
(* started.                                                                 *)
C25_HeadingRefDefSlug ==
    /\ [][(pc = "build" /\ files # <<>> /\ NextFile.parsed) =>
             /\ NextFile.node = HeadOnePage => ev'.refdefs = ev.refdefs
             /\ NextFile.node = DefPage =>
                    ev'.refdefs = MapInsert(ev.refdefs, "intro",
                                            RefDefNew("Some Title", Slug(NextFile.path)))
             /\ NextFile.node \in {IncludePage, ImportPage} =>
                    ev'.refdefs = MapInsert(ev.refdefs, "part",
                                            RefDefNew("Part Title", Slug(NextFile.path)))]_vars
    /\ [](\A id \in DOMAIN ev.refdefs :
             \E i \in 1..Len(built) :
                 built[i].parsed /\ ev.refdefs[id].slug = Slug(built[i].path))

(* a heading registered from an included file carries the including page's  *)
(* slug, and the later one-argument heading adds nothing                    *)
C25_Witness ==
    /\ pc = "done"
    /\ BuiltPages(IncludePage) = {1}
    /\ BuiltPages(HeadOnePage) = {2}
    /\ Len(built) = 2
    /\ DOMAIN ev.refdefs = {"part"}
    /\ ev.refdefs["part"] = RefDefNew("Part Title", Slug(built[1].path))
    /\ built[1].body = "a \n### Part Title\ninc"

-----------------------------------------------------------------------------
(* C26: Let called with no argument, with a bare literal as its first       *)
(* argument, or with a binding list of odd length returns an error and      *)
(* leaves the evaluator as it was: no key or value is evaluated, nothing is *)
(* bound, the body is not evaluated (no error is logged for the unbound     *)
(* names in it and its define does not run).                               *)
C26_LetMalformed ==
    (pc = "handler" /\ ncalls = 1 /\ call.name = "let") =>
        IF \/ Len(call.args) = 0
           \/ IsOwned(call.args[1])
           \/ Len(call.args[1].c) % 2 # 0
        THEN ~call.ok /\ call.out = "" /\ ev = call.pre
        ELSE call.ok

(* a binding list of odd length whose first pair is complete, and a body    *)
(* that would define foo                                                    *)
C26_Witness ==
    /\ pc = "handler" /\ ncalls = 1 /\ call.name = "let"
    /\ call.args = <<Group(<<Leaf("foo"), Leaf("3"), Call("nowhere", <<>>)>>), DefineFoo>>
    /\ "foo" \notin DOMAIN call.pre.ctx
    /\ ~call.ok
    /\ "foo" \notin DOMAIN ev.ctx
    /\ ev.errors = 0

-----------------------------------------------------------------------------
(* the binding list and the body of the let call *)
LetChildren == call.args[1].c
LetBody == Tail(call.args)

(* the text the pre-call binding of foo evaluates to, empty when unbound *)
PreCallFoo == Evaluate(Call("foo", <<>>), call.pre).out

(* C27: Let installs its bindings one pair after the other.  With the list  *)
(* (foo V bar foo()) the value of bar is the text of V, the value the first *)
(* pair has just installed, whatever foo was bound to before the call; with *)
(* the list (bar foo() foo V) it is the text of the pre-call foo.  The text *)
(* is stored: bar() in the body yields it again even after a define in the  *)
(* body has rebound foo.                                                    *)
C27_LetSequential ==
    (/\ pc = "let" /\ ncalls = 1 /\ call.name = "let"
     /\ Len(LetChildren) = 4
     /\ \A n \in 1..Len(LetBody) :
           LetBody[n] \in {Call("bar", <<>>), Call("define", <<Leaf("foo"), Leaf("9")>>)})
    => /\ (/\ LetChildren[1] = Leaf("foo") /\ LetChildren[2] \in ClosedValues
           /\ LetChildren[3] = Leaf("bar") /\ LetChildren[4] = Call("foo", <<>>))
          => call.out = Join([n \in 1..Len(LetBody) |->
                                 IF LetBody[n] = Call("bar", <<>>)
                                 THEN Evaluate(LetChildren[2], TestIndex).out ELSE ""])
       /\ (/\ LetChildren[1] = Leaf("bar") /\ LetChildren[2] = Call("foo", <<>>)
           /\ LetChildren[3] = Leaf("foo") /\ LetChildren[4] \in ClosedValues)
          => call.out = Join([n \in 1..Len(LetBody) |->
                                 IF LetBody[n] = Call("bar", <<>>)
                                 THEN PreCallFoo ELSE ""])

(* foo is bound to "a" before the call, the list binds foo to 12 and then   *)
(* bar to foo(), the body rebinds foo and then reads bar                    *)
C27_Witness ==
    /\ pc = "let" /\ ncalls = 1 /\ call.name = "let"
    /\ "foo" \in DOMAIN call.pre.ctx
    /\ call.pre.ctx["foo"] = Leaf("a")
    /\ LetChildren = <<Leaf("foo"), Call("concat", <<Leaf("1"), Leaf("2")>>),
                       Leaf("bar"), Call("foo", <<>>)>>
    /\ LetBody = <<Call("define", <<Leaf("foo"), Leaf("9")>>), Call("bar", <<>>)>>
    /\ call.out = "12"

-----------------------------------------------------------------------------
(* the binding a define of the body leaves for a key: the body defines foo  *)
(* with define(foo, 9) and bar with the define(bar, 8) of the nested let    *)
BodyDefines(key) ==
    \E n \in 1..Len(LetBody) :
        LetBody[n] = (IF key = "foo" THEN Call("define", <<Leaf("foo"), Leaf("9")>>)
                      ELSE NestedLet)
BodyDefinition(key) == IF key = "foo" THEN Leaf("9") ELSE Leaf("8")

(* C28: after a let call a key of its binding list has its pre-call         *)
(* binding, also when the body ran a define for it; a key that is not in    *)
(* the list and that the body defined keeps the body's definition; any      *)
(* other key is as before the call.                                         *)
C28_LetFrame ==
    (pc = "let" /\ ncalls = 1 /\ call.name = "let") =>
        \A key \in LetKeys :
            Binding(ev.ctx, key) =
                IF key \in NamedKeys(call.args) \/ ~BodyDefines(key)
                THEN Binding(call.pre.ctx, key)
                ELSE <<"bound", BodyDefinition(key)>>

-----------------------------------------------------------------------------
(* the first position whose argument fails its checker *)
FirstFailing ==
    CHOOSE i \in 1..Len(call.handler.checkers) :
        /\ ~IsMatch(call.handler.checkers[i], PaddedArgs[i])
        /\ \A j \in 1..(i - 1) : IsMatch(call.handler.checkers[j], PaddedArgs[j])

(* C29: a template call evaluates its arguments from left to right and      *)
(* validates each before it evaluates the next: when the argument at        *)
(* position i is the first to fail its checker, the evaluator is left as    *)
(* the evaluation of the arguments 1..i leaves it, so that a define or an   *)
(* unbound name at a later position has no effect; when the call succeeds   *)
(* every argument has been evaluated.                                       *)
C29_TemplateStopsAtFailure ==
    (pc = "handler" /\ ncalls = 1 /\ call.name = "template") =>
        IF call.ok
        THEN ev = EvaluateAll(call.args, 1, call.pre).e
        ELSE ev = EvaluateAll(SubSeq(call.args, 1, Min(FirstFailing, Len(call.args))),
                              1, call.pre).e

(* the first argument names an unbound variable and passes, the second      *)
(* fails, the third would define foo: the error is logged and foo is not    *)
(* defined                                                                  *)
C29_Witness ==
    /\ pc = "handler" /\ ncalls = 1 /\ call.name = "template"
    /\ call.handler.checkers = <<".*", "^/.*$">>
    /\ call.args = <<Call("foo", <<>>), Leaf("T"), DefineFoo>>
    /\ call.pre.ctx = EmptyMap
    /\ ~call.ok
    /\ ev.ctx = EmptyMap
    /\ ev.errors = call.pre.errors + 1

-----------------------------------------------------------------------------
(* the positions of the groups that are not (title, slug) pairs, and the    *)
(* number of arguments before the first of them                             *)
TocMalformed == {i \in 1..Len(call.args) : ~IsOwned(call.args[i]) /\ Len(call.args[i].c) # 2}
TocWellFormedPrefix ==
    IF TocMalformed = {} THEN Len(call.args)
    ELSE (CHOOSE i \in TocMalformed : \A j \in TocMalformed : i <= j) - 1

(* the entry the argument at position i stands for *)
TocEntry(i) ==
    IF IsOwned(call.args[i])
    THEN [parent |-> call.pre.slug, child |-> call.args[i].s, title |-> NoTitle]
    ELSE [parent |-> call.pre.slug,
          child |-> Evaluate(call.args[i].c[2], call.pre).out,
          title |-> SomeTitle(Evaluate(call.args[i].c[1], call.pre).out)]

(* C30: a toctree call adds one entry per argument, in argument order,      *)
(* under the current page's slug: a bare slug without a title, a group of   *)
(* two with its evaluated title and slug.  It fails exactly when some       *)
(* argument is a group of another length, and then the entries of the       *)
(* arguments before the first such group have been added and stay, and      *)
(* none is added for that argument or a later one.                          *)
C30_TocTreeNotAtomic ==
    (pc = "handler" /\ ncalls = 1 /\ call.name = "toctree") =>
        /\ call.ok <=> TocMalformed = {}
        /\ call.out = ""
        /\ ev.toctree.entries =
               call.pre.toctree.entries \o [i \in 1..TocWellFormedPrefix |-> TocEntry(i)]

(* two entries are added, then a group of one fails the call *)
C30_Witness ==
    /\ pc = "handler" /\ ncalls = 1 /\ call.name = "toctree"
    /\ call.args = <<Leaf("child"),
                     Group(<<Call("foo", <<>>), Call("concat", <<Leaf("s"), Leaf("ub")>>)>>),
                     Group(<<Leaf("alone")>>)>>
    /\ "foo" \in DOMAIN call.pre.ctx
    /\ ~call.ok
    /\ ev.toctree.entries =
          <<[parent |-> "index", child |-> "child", title |-> NoTitle],
            [parent |-> "index", child |-> "sub", title |-> SomeTitle("a")]>>

====
